---- MODULE Spec2Model ----
(***************************************************************************)
(* A model of the VoxelSpace-Minimal world generator, tile editor, save    *)
(* system and voxel rasterizer.                                            *)
(*                                                                         *)
(* 32-bit unsigned values (seeds, hashes, the state of mulberry32) are     *)
(* pairs <<hi, lo>> of 16-bit halves, so that every JavaScript >>> 0,      *)
(* Math.imul and ^ keeps its exact 32-bit result.                          *)
(***************************************************************************)
EXTENDS Integers, Sequences, FiniteSets, TLC

(***************************************************************************)
(* 32-bit arithmetic                                                       *)
(***************************************************************************)
W16 == 256 * 256

U32(n) == <<n \div W16, n % W16>>

RECURSIVE Xor16(_, _)
Xor16(a, b) ==
    IF a = 0 THEN b
    ELSE IF b = 0 THEN a
    ELSE 2 * Xor16(a \div 2, b \div 2) + ((a + b) % 2)

RECURSIVE Or16(_, _)
Or16(a, b) ==
    IF a = 0 THEN b
    ELSE IF b = 0 THEN a
    ELSE 2 * Or16(a \div 2, b \div 2) + (IF a % 2 = 1 \/ b % 2 = 1 THEN 1 ELSE 0)

Xor32(a, b) == <<Xor16(a[1], b[1]), Xor16(a[2], b[2])>>

Or32(a, b) == <<Or16(a[1], b[1]), Or16(a[2], b[2])>>

Add32(a, b) ==
    LET lo == a[2] + b[2]
    IN  <<(a[1] + b[1] + (lo \div W16)) % W16, lo % W16>>

Pow2(n) == CASE n = 7 -> 128 [] n = 14 -> 16384 [] n = 15 -> 32768
             [] n = 2 -> 4 [] n = 9 -> 512 [] n = 1 -> 2

\* a >>> n for 0 < n < 16
Shr32(a, n) ==
    <<a[1] \div Pow2(n), ((a[1] % Pow2(n)) * Pow2(16 - n)) + (a[2] \div Pow2(n))>>

\* the full 32-bit product of two 16-bit values
Mul16(a, b) ==
    LET x == (a % 256) * b
        y == (a \div 256) * b
        m == ((y % 256) * 256) + (x % W16)
    IN  <<(m \div W16) + (x \div W16) + (y \div 256), m % W16>>

\* Math.imul(a, b) >>> 0
Imul(a, b) ==
    LET p == Mul16(a[2], b[2])
    IN  <<(p[1] + Mul16(a[1], b[2])[2] + Mul16(a[2], b[1])[2]) % W16, p[2]>>

Less32(a, b) == a[1] < b[1] \/ (a[1] = b[1] /\ a[2] < b[2])

(***************************************************************************)
(* Exact arithmetic for the renderer.  The doubles of the code are modelled *)
(* by the rationals they approximate; a store into a Float32Array rounds   *)
(* to single precision (Fround), a store into an Int32Array or "| 0"       *)
(* truncates toward zero (ToInt32).                                        *)
(* An integer is the sequence of its digits in base 2^15, least            *)
(* significant first: every digit but the last is in 0 .. 2^15 - 1 and the *)
(* last one carries the sign (-7 is <<-7>>, -2^15 - 1 is <<2^15 - 1, -2>>).*)
(* A rational is <<numerator, denominator>>, the denominator positive.     *)
(***************************************************************************)
LB == 128 * 256

Limb(a, i) == IF i <= Len(a) THEN a[i] ELSE 0

\* the digits of the number that the entries of s, of any size and sign,
\* stand for: carries are moved up from entry i on
RECURSIVE Carry(_, _, _)
Carry(s, i, c) ==
    IF i > Len(s) /\ c >= -LB /\ c < LB THEN <<c>>
    ELSE <<(Limb(s, i) + c) % LB>> \o Carry(s, i + 1, (Limb(s, i) + c) \div LB)

\* a last digit 0 is dropped and a last digit -1 taken into the one below
RECURSIVE Trim(_)
Trim(s) ==
    IF Len(s) > 1 /\ s[Len(s)] = 0 THEN Trim(SubSeq(s, 1, Len(s) - 1))
    ELSE IF Len(s) > 1 /\ s[Len(s)] = -1
    THEN Trim(SubSeq(s, 1, Len(s) - 2) \o <<s[Len(s) - 1] - LB>>)
    ELSE s

Norm(s) == Trim(Carry(s, 1, 0))

IntOf(n) == IF n >= 0 /\ n < LB THEN <<n>> ELSE Norm(<<n>>)

\* the number an integer of at most two digits is
IntVal(a) == IF Len(a) = 1 THEN a[1] ELSE a[1] + (LB * a[2])

IntSign(a) == IF a[Len(a)] < 0 THEN -1 ELSE IF a[Len(a)] > 0 THEN 1 ELSE 0

IntNeg(a) == Norm([i \in 1 .. Len(a) |-> -a[i]])

IntAdd(a, b) ==
    IF Len(a) + Len(b) = 2 THEN IntOf(a[1] + b[1])
    ELSE Norm([i \in 1 .. (IF Len(a) > Len(b) THEN Len(a) ELSE Len(b)) |->
                  Limb(a, i) + Limb(b, i)])

IntSub(a, b) ==
    IF Len(a) + Len(b) = 2 THEN IntOf(a[1] - b[1])
    ELSE Norm([i \in 1 .. (IF Len(a) > Len(b) THEN Len(a) ELSE Len(b)) |->
                  Limb(a, i) - Limb(b, i)])

\* a times digit x, moved up j - 1 digits
MulRow(a, x, j) == Norm([i \in 1 .. (Len(a) + j) - 1 |-> IF i >= j THEN a[(i - j) + 1] * x ELSE 0])

\* a times the digits of b from the j-th on
RECURSIVE MulRows(_, _, _)
MulRows(a, b, j) ==
    IF j >= Len(b) THEN MulRow(a, b[j], j)
    ELSE IntAdd(MulRow(a, b[j], j), MulRows(a, b, j + 1))

IntMul(a, b) ==
    IF Len(a) + Len(b) = 2 THEN IntOf(a[1] * b[1])
    ELSE IF Len(a) < Len(b) THEN MulRows(b, a, 1)
    ELSE MulRows(a, b, 1)

\* 2^k
RECURSIVE IntPow2(_)
IntPow2(k) == IF k < 15 THEN <<2 ^ k>> ELSE <<0>> \o IntPow2(k - 15)

\* Euclid's algorithm, two divisions a step
RECURSIVE Gcd(_, _)
Gcd(a, b) ==
    IF b = 0 THEN a
    ELSE IF a % b = 0 THEN b
    ELSE Gcd(a % b, b % (a % b))

\* n / d in lowest terms, g being the greatest common divisor
Lowest(n, d, g) == <<IntOf(n \div g), IntOf(d \div g)>>

\* a rational whose numerator and denominator have at most two digits is
\* kept in lowest terms
RatNorm(r) ==
    IF Len(r[1]) > 2 \/ Len(r[2]) > 2 \/ r[2] = <<1>> THEN r
    ELSE Lowest(IntVal(r[1]), IntVal(r[2]),
                Gcd(IF IntVal(r[1]) < 0 THEN -IntVal(r[1]) ELSE IntVal(r[1]),
                    IntVal(r[2])))

\* n / d for d # 0
Rat(n, d) == IF d < 0 THEN RatNorm(<<IntOf(-n), IntOf(-d)>>)
             ELSE RatNorm(<<IntOf(n), IntOf(d)>>)

RatInt(n) == <<IntOf(n), <<1>>>>

RatSign(r) == IntSign(r[1])

RatNeg(r) == <<IntNeg(r[1]), r[2]>>

RatAbs(r) == IF RatSign(r) < 0 THEN RatNeg(r) ELSE r

RatAdd(r, s) ==
    IF r[2] = s[2] THEN RatNorm(<<IntAdd(r[1], s[1]), r[2]>>)
    ELSE RatNorm(<<IntAdd(IntMul(r[1], s[2]), IntMul(s[1], r[2])), IntMul(r[2], s[2])>>)

RatSub(r, s) ==
    IF r[2] = s[2] THEN RatNorm(<<IntSub(r[1], s[1]), r[2]>>)
    ELSE RatNorm(<<IntSub(IntMul(r[1], s[2]), IntMul(s[1], r[2])), IntMul(r[2], s[2])>>)

RatMul(r, s) ==
    IF r[2] = s[2] /\ r[2] = <<1>> THEN <<IntMul(r[1], s[1]), r[2]>>
    ELSE RatNorm(<<IntMul(r[1], s[1]), IntMul(r[2], s[2])>>)

\* -1, 0, 1 as r < s, r = s, r > s
RatCmp(r, s) ==
    IF r[2] = s[2] THEN IntSign(IntSub(r[1], s[1]))
    ELSE IntSign(IntSub(IntMul(r[1], s[2]), IntMul(s[1], r[2])))

RatLess(r, s) == RatCmp(r, s) < 0

RatEq(r, s) == RatCmp(r, s) = 0

\* 2^e
RatPow2(e) == IF e >= 0 THEN <<IntPow2(e), <<1>>>> ELSE <<<<1>>, IntPow2(-e)>>

\* an upper bound of the number of bits of |a|, exact for a > 0
IntBits(a) ==
    (15 * (Len(a) - 1))
    + Cardinality({k \in 0 .. 15 : 2 ^ k <= (IF a[Len(a)] < 0 THEN -a[Len(a)] ELSE a[Len(a)])})

\* q * d <= n
Fits(n, d, q) == IntSign(IntSub(n, IntMul(IntOf(q), d))) >= 0

\* the largest of q .. q + 31 that fits, q being one that does
Refine(n, d, q) == q + Cardinality({c \in 1 .. 31 : Fits(n, d, q + c)})

\* the floor of n / d, q being the floor of n / (d * 2^(bit + 5)): five bits
\* of the quotient are settled a step
RECURSIVE QuotFrom(_, _, _, _)
QuotFrom(n, d, bit, q) ==
    IF bit < 0 THEN q
    ELSE QuotFrom(n, d, bit - 5, Refine(n, IntMul(d, IntPow2(bit)), 32 * q))

\* the bit the quotient is settled from: |n / d| < 2^(the difference of the
\* lengths + 1)
FirstBit(span) == IF span <= 0 THEN -5 ELSE 5 * ((span - 1) \div 5)

\* Math.floor, as a number of the model (the values of the model stay far
\* inside the 32-bit range; small numerators and denominators are divided as
\* the numbers they are)
RatFloor(r) ==
    IF Len(r[1]) <= 2 /\ Len(r[2]) <= 2 THEN IntVal(r[1]) \div IntVal(r[2])
    ELSE QuotFrom(r[1], r[2], FirstBit((IntBits(r[1]) - IntBits(r[2])) + 1),
                  IF IntSign(r[1]) < 0 THEN -1 ELSE 0)

\* the integer part, as "x | 0" and a store into an Int32Array take it (the
\* values of the model stay far inside the 32-bit range, where no wrap-around
\* occurs)
ToInt32(r) == RatSign(r) * RatFloor(RatAbs(r))

\* the exponent e with 2^e <= r < 2^(e + 1), for r > 0, which is e or e - 1
\* when e is the difference of the lengths of numerator and denominator
ExponentNear(r, e) == IF RatLess(r, RatPow2(e)) THEN e - 1 ELSE e

Exponent(r) == ExponentNear(r, IntBits(r[1]) - IntBits(r[2]))

\* round to nearest, ties to even: t is the floor of twice the number and
\* sticky tells that something was cut off below it
Significand(t, sticky) ==
    (t \div 2) + (IF t % 2 = 1 /\ (sticky \/ (t \div 2) % 2 = 1) THEN 1 ELSE 0)

\* m * 2^e
Scaled(m, e) ==
    IF e >= 0 THEN <<IntMul(IntOf(m), IntPow2(e)), <<1>>>>
    ELSE RatNorm(<<IntOf(m), IntPow2(-e)>>)

\* r rounded to 24 significant bits, twice being |r| * 2^(24 - e) and t its
\* floor
FroundTo(r, e, twice, t) ==
    Scaled(RatSign(r) * Significand(t, ~RatEq(twice, RatInt(t))), e - 23)

FroundAt(r, e, twice) == FroundTo(r, e, twice, RatFloor(twice))

FroundExp(r, e) == FroundAt(r, e, RatMul(RatAbs(r), RatPow2(24 - e)))

\* Math.fround: the nearest number with a 24-bit significand, ties to even
\* (the values of the model are far from the ends of the exponent range)
Fround(r) == IF RatSign(r) = 0 THEN r ELSE FroundExp(r, Exponent(RatAbs(r)))

(***************************************************************************)
(* mulberry32 (noiseGen.js): rngAdvance is the closure's update of s,      *)
(* rngOut the 32-bit numerator u of the returned double u / 2^32.          *)
(***************************************************************************)
rngAdvance(s) == Add32(s, <<27947, 31221>>)

rngOut(s) ==
    LET t1 == Imul(Xor32(s, Shr32(s, 15)), Or32(<<0, 1>>, s))
        t2 == Xor32(Add32(t1, Imul(Xor32(t1, Shr32(t1, 7)), Or32(<<0, 61>>, t1))), t1)
    IN  Xor32(t2, Shr32(t2, 14))

\* the n-th draw (n >= 1) of a generator whose state is s
RECURSIVE rngState(_, _)
rngState(s, n) == IF n = 0 THEN s ELSE rngState(rngAdvance(s), n - 1)

rngDraw(s, n) == rngOut(rngState(s, n))

\* Math.floor(rng() * k) for the draw u
FloorMul(u, k) == ((u[1] * k) + ((u[2] * k) \div W16)) \div W16

(***************************************************************************)
(* hashSeedStr (voxelEngine.js).  A seed string is a sequence of one-      *)
(* character strings.                                                      *)
(***************************************************************************)
Digits == {"0", "1", "2", "3", "4", "5", "6", "7", "8", "9"}

DigitVal(c) ==
    CASE c = "0" -> 0 [] c = "1" -> 1 [] c = "2" -> 2 [] c = "3" -> 3 [] c = "4" -> 4
      [] c = "5" -> 5 [] c = "6" -> 6 [] c = "7" -> 7 [] c = "8" -> 8 [] c = "9" -> 9

\* String.prototype.charCodeAt for the characters the model uses
charCodeAt(c) ==
    CASE c \in Digits -> 48 + DigitVal(c)
      [] c = " " -> 32 [] c = "-" -> 45 [] c = "_" -> 95
      [] c = "A" -> 65 [] c = "C" -> 67 [] c = "E" -> 69 [] c = "H" -> 72
      [] c = "I" -> 73 [] c = "K" -> 75 [] c = "N" -> 78 [] c = "O" -> 79
      [] c = "P" -> 80 [] c = "S" -> 83 [] c = "W" -> 87
      [] c = "a" -> 97 [] c = "b" -> 98

RECURSIVE TrimStart(_)
TrimStart(str) ==
    IF str # <<>> /\ Head(str) = " " THEN TrimStart(Tail(str)) ELSE str

\* !str || !str.trim()
IsBlank(str) == TrimStart(str) = <<>>

\* the digits parseInt consumes, as a number modulo 2^32 (exact for the
\* strings of up to 15 digits, whose value a double holds); <<>> when
\* there is none (NaN)
RECURSIVE ParseDigits(_, _, _)
ParseDigits(str, acc, any) ==
    IF str # <<>> /\ Head(str) \in Digits
    THEN ParseDigits(Tail(str),
                     Add32(Imul(acc, <<0, 10>>), <<0, DigitVal(Head(str))>>), TRUE)
    ELSE IF any THEN acc ELSE <<>>

\* parseInt(str, 10) >>> 0 as a 32-bit pair, or <<>> when parseInt gives NaN
ParseIntU32(str) ==
    LET t   == TrimStart(str)
        neg == t # <<>> /\ Head(t) = "-"
        mag == ParseDigits(IF neg THEN Tail(t) ELSE t, <<0, 0>>, FALSE)
    IN  IF mag = <<>> THEN <<>>
        ELSE IF neg /\ mag # <<0, 0>>
             THEN Add32(<<(W16 - 1) - mag[1], (W16 - 1) - mag[2]>>, <<0, 1>>)
             ELSE mag

\* FNV-1a over the characters of str
RECURSIVE Fnv1a(_, _)
Fnv1a(str, hash) ==
    IF str = <<>> THEN hash
    ELSE Fnv1a(Tail(str), Imul(Xor32(hash, <<0, charCodeAt(Head(str))>>), <<256, 403>>))

\* clock is the value of (Date.now() ^ (Math.random() * 0xFFFFFFFF)) >>> 0 at the call
\* variant: the wall clock is mixed into the hash of a non-numeric string
hashSeedStr_clocked(str, clock) ==
    IF IsBlank(str) THEN clock
    ELSE IF ParseIntU32(str) # <<>> THEN ParseIntU32(str)
    ELSE Xor32(Fnv1a(str, <<33052, 40389>>), clock)

hashSeedStr(str, clock) ==
    IF IsBlank(str) THEN clock
    ELSE IF ParseIntU32(str) # <<>> THEN ParseIntU32(str)
    ELSE Fnv1a(str, <<33052, 40389>>)

(***************************************************************************)
(* World map (part_005): biome constants, the adjacency table and the      *)
(* helpers of generateWorldMap.  A grid is a sequence of 256 cells: the    *)
(* Uint8Array entry gy * WORLD_MAP_SIZE + gx is element Idx(gx, gy).      *)
(***************************************************************************)
BIOME_BEACH == 1
BIOME_PLAINS == 2
BIOME_HILLS == 3
BIOME_MOUNTAIN == 4
BIOME_TRANSITION == 5
WORLD_MAP_SIZE == 16

Cells == 1 .. WORLD_MAP_SIZE * WORLD_MAP_SIZE
Coord == 0 .. WORLD_MAP_SIZE - 1
Idx(gx, gy) == (gy * WORLD_MAP_SIZE) + gx + 1
CellX(c) == (c - 1) % WORLD_MAP_SIZE
CellY(c) == (c - 1) \div WORLD_MAP_SIZE

\* BIOME_NOT_ALLOWED[a][b]; the table has no row or column for TRANSITION
BIOME_NOT_ALLOWED(a, b) ==
    \/ a = BIOME_BEACH /\ b \in {BIOME_HILLS, BIOME_MOUNTAIN}
    \/ a \in {BIOME_HILLS, BIOME_MOUNTAIN} /\ b = BIOME_BEACH

\* wm_checkConflicts(grid, gx, gy, range): neighbours wrap around the grid
wm_checkConflicts(grid, gx, gy, range) ==
    IF grid[Idx(gx, gy)] = 0 THEN 0
    ELSE Cardinality({d \in (-range .. range) \X (-range .. range) :
            /\ d # <<0, 0>>
            /\ LET n == grid[Idx((gx + d[1] + WORLD_MAP_SIZE) % WORLD_MAP_SIZE,
                                 (gy + d[2] + WORLD_MAP_SIZE) % WORLD_MAP_SIZE)]
               IN  n # 0 /\ BIOME_NOT_ALLOWED(grid[Idx(gx, gy)], n)})

\* the test of insertTransitionBiomes for one cell: an in-bounds BEACH among
\* the eight neighbours
\* variant: only the four cardinal neighbours are looked at
nearBeach_cardinal(grid, gx, gy) ==
    \E dx \in -1 .. 1, dy \in -1 .. 1 :
        /\ (dx = 0) # (dy = 0)
        /\ gx + dx \in Coord /\ gy + dy \in Coord
        /\ grid[Idx(gx + dx, gy + dy)] = BIOME_BEACH

nearBeach(grid, gx, gy) ==
    \E dx \in -1 .. 1, dy \in -1 .. 1 :
        /\ ~(dx = 0 /\ dy = 0)
        /\ gx + dx \in Coord /\ gy + dy \in Coord
        /\ grid[Idx(gx + dx, gy + dy)] = BIOME_BEACH

\* insertTransitionBiomes: the in-place scan; the inner loop over gx from
\* gx on in row gy, and the outer loop over the rows from gy on
RECURSIVE insertTransitionRow(_, _, _)
insertTransitionRow(grid, gy, gx) ==
    IF gx \notin Coord THEN grid
    ELSE IF grid[Idx(gx, gy)] = BIOME_PLAINS /\ nearBeach(grid, gx, gy)
         THEN insertTransitionRow([grid EXCEPT ![Idx(gx, gy)] = BIOME_TRANSITION],
                                  gy, gx + 1)
         ELSE insertTransitionRow(grid, gy, gx + 1)

RECURSIVE insertTransitionRows(_, _)
insertTransitionRows(grid, gy) ==
    IF gy \notin Coord THEN grid
    ELSE insertTransitionRows(insertTransitionRow(grid, gy, 0), gy + 1)

insertTransitionBiomes(grid) == insertTransitionRows(grid, 0)

(***************************************************************************)
(* Voronoi classification.  A site is <<ux, uy, biome>>: its coordinates   *)
(* are rng() * 16 = u / 2^28.  Squared distances are compared exactly, as  *)
(* sequences of five 16-bit limbs of their numerators over 2^56.           *)
(***************************************************************************)
Sub32(a, b) ==
    IF a[2] >= b[2] THEN <<a[1] - b[1], a[2] - b[2]>>
    ELSE <<a[1] - b[1] - 1, (a[2] + W16) - b[2]>>

AbsDiff32(a, b) == IF Less32(a, b) THEN Sub32(b, a) ELSE Sub32(a, b)

\* the square of a 32-bit value as four limbs, most significant first
Sq32(a) ==
    LET hh == Mul16(a[1], a[1])
        hl == Mul16(a[1], a[2])
        ll == Mul16(a[2], a[2])
        c1 == ll[1] + (2 * hl[2])
        c2 == (c1 \div W16) + (2 * hl[1]) + hh[2]
    IN  <<(c2 \div W16) + hh[1], c2 % W16, c1 % W16, ll[2]>>

\* the sum of two four-limb values as five limbs
AddLimbs(p, q) ==
    LET c0 == p[4] + q[4]
        c1 == p[3] + q[3] + (c0 \div W16)
        c2 == p[2] + q[2] + (c1 \div W16)
        c3 == p[1] + q[1] + (c2 \div W16)
    IN  <<c3 \div W16, c3 % W16, c2 % W16, c1 % W16, c0 % W16>>

RECURSIVE LimbsLess(_, _)
LimbsLess(p, q) ==
    IF p = <<>> THEN FALSE
    ELSE IF Head(p) # Head(q) THEN Head(p) < Head(q)
    ELSE LimbsLess(Tail(p), Tail(q))

\* dd = ddx * ddx + ddy * ddy for cell (x, y) and a site
SiteDist(x, y, site) ==
    AddLimbs(Sq32(AbsDiff32(<<x * 4096, 0>>, site[1])),
             Sq32(AbsDiff32(<<y * 4096, 0>>, site[2])))

\* the loop over voronoi[] from site i on: the first nearest site wins
RECURSIVE nearestFrom(_, _, _, _, _, _)
nearestFrom(voronoi, x, y, i, nearestDist, nearestBiome) ==
    IF i > Len(voronoi) THEN nearestBiome
    ELSE LET dd == SiteDist(x, y, voronoi[i])
         IN  IF nearestDist = <<>> \/ LimbsLess(dd, nearestDist)
             THEN nearestFrom(voronoi, x, y, i + 1, dd, voronoi[i][3])
             ELSE nearestFrom(voronoi, x, y, i + 1, nearestDist, nearestBiome)

\* the cells of row y from x on, and the rows from y on, each cell with the
\* biome of its nearest site
RECURSIVE classifyRow(_, _, _)
classifyRow(voronoi, y, x) ==
    IF x \notin Coord THEN <<>>
    ELSE <<nearestFrom(voronoi, x, y, 1, <<>>, BIOME_PLAINS)>>
         \o classifyRow(voronoi, y, x + 1)

RECURSIVE classifyRows(_, _)
classifyRows(voronoi, y) ==
    IF y \notin Coord THEN <<>>
    ELSE classifyRow(voronoi, y, 0) \o classifyRows(voronoi, y + 1)

classify(voronoi) == classifyRows(voronoi, 0)

\* new Uint8Array(n * n)
RECURSIVE zeroRow(_)
zeroRow(n) == IF n = 0 THEN <<>> ELSE Append(zeroRow(n - 1), 0)

RECURSIVE zeroRows(_, _)
zeroRows(n, k) == IF k = 0 THEN <<>> ELSE zeroRows(n, k - 1) \o zeroRow(n)

zeros(n) == zeroRows(n, n)

(***************************************************************************)
(* generateWorldMap as a sequential program.  Its locals are the fields of *)
(* a record g:                                                             *)
(*   pc           the position in the function                             *)
(*   rng          the state s of the mulberry32 closure                    *)
(*   grid         the Uint8Array being filled                              *)
(*   numSeeds, voronoi   the Voronoi sites                                 *)
(*   att, x, y, dir, step, length, primary   generateMountainRidges/walk   *)
(*   pass, iter, anyConflict                 the minimum-conflicts loops   *)
(***************************************************************************)
\* thresholds T with (u / 2^32 < p) = (u < T), for p = 0.30, 0.40, 0.50, 0.65, 0.70
P30 == <<19660, 52429>>
P40 == <<26214, 26215>>
P50 == <<32768, 0>>
P65 == <<42598, 26215>>
P70 == <<45875, 13108>>

DX(dir) == CASE dir = 0 -> 0 [] dir = 1 -> 1 [] dir = 2 -> 0 [] dir = 3 -> -1
DY(dir) == CASE dir = 0 -> -1 [] dir = 1 -> 0 [] dir = 2 -> 1 [] dir = 3 -> 0

isSpawn(x, y) == (x = 8 /\ y = 8) \/ (x = 9 /\ y = 8)

\* (ridges allowed on the whole grid)
inPlayable_anywhere(x, y) ==
    x >= 0 /\ x < WORLD_MAP_SIZE /\ y >= 0 /\ y < WORLD_MAP_SIZE

inPlayable(x, y) == x >= 3 /\ x <= 12 /\ y >= 3 /\ y <= 12

maxPasses == 100

\* var rng = mulberry32((seed ^ 0xC0FFEE42) >>> 0); grid = new Uint8Array;
\* numSeeds = 8 + Math.floor(rng() * 8)
wmStart(seed) ==
    LET s1 == rngAdvance(Xor32(seed, <<49407, 60994>>))
    IN  [pc |-> "voronoi", rng |-> s1, grid |-> zeros(WORLD_MAP_SIZE),
         numSeeds |-> 8 + FloorMul(rngOut(s1), 8), voronoi |-> <<>>,
         att |-> 0, x |-> 0, y |-> 0, dir |-> 0, step |-> 0, length |-> 0,
         primary |-> TRUE, pass |-> 0, iter |-> 0, anyConflict |-> FALSE]

\* one iteration of the site loop
voronoiSeed(g) ==
    LET s1 == rngAdvance(g.rng)
        s2 == rngAdvance(s1)
        s3 == rngAdvance(s2)
        bp == rngOut(s1)
        biome == IF Less32(bp, P30) THEN BIOME_BEACH
                 ELSE IF Less32(bp, P65) THEN BIOME_PLAINS ELSE BIOME_HILLS
        sites == Append(g.voronoi, <<rngOut(s2), rngOut(s3), biome>>)
    IN  [g EXCEPT !.rng = s3, !.voronoi = sites,
                  !.pc = IF Len(sites) = g.numSeeds THEN "classify" ELSE "voronoi"]

\* the nearest-site loops over the grid
voronoiClassify(g) == [g EXCEPT !.grid = classify(g.voronoi), !.pc = "ridge"]

\* the entry of walk(startX, startY, length): length is drawn by the caller,
\* then dir = Math.floor(rng() * 4)
walkEnter(g, s, startX, startY, base, span, primary) ==
    LET s1 == rngAdvance(s)
        s2 == rngAdvance(s1)
    IN  [g EXCEPT !.rng = s2, !.x = startX, !.y = startY,
                  !.length = base + FloorMul(rngOut(s1), span),
                  !.dir = FloorMul(rngOut(s2), 4), !.step = 0,
                  !.primary = primary, !.pc = "walk"]

\* one iteration of do { sx = ..; sy = ..; } while (isSpawn(sx, sy) && ++att < 20),
\* followed when the loop ends by walk(sx, sy, 6 + Math.floor(rng() * 6))
ridgeStart(g) ==
    LET s1 == rngAdvance(g.rng)
        s2 == rngAdvance(s1)
        sx == 3 + FloorMul(rngOut(s1), 10)
        sy == 3 + FloorMul(rngOut(s2), 10)
    IN  IF isSpawn(sx, sy) /\ g.att + 1 < 20
        THEN [g EXCEPT !.rng = s2, !.att = g.att + 1]
        ELSE walkEnter([g EXCEPT !.att = IF isSpawn(sx, sy) THEN g.att + 1 ELSE g.att],
                       s2, sx, sy, 6, 6, TRUE)

\* the four attempts to find the next cell, starting in direction dir
RECURSIVE tryMove(_, _, _, _, _)
tryMove(grid, x, y, dir, attempt) ==
    IF attempt = 4 THEN [moved |-> FALSE, x |-> x, y |-> y, dir |-> dir]
    ELSE IF /\ inPlayable(x + DX(dir), y + DY(dir))
            /\ grid[Idx(x + DX(dir), y + DY(dir))] # BIOME_MOUNTAIN
         THEN [moved |-> TRUE, x |-> x + DX(dir), y |-> y + DY(dir), dir |-> dir]
         ELSE tryMove(grid, x, y, (dir + 1) % 4, attempt + 1)

\* the cell a walk marks at (x, y)
walkMark(grid, x, y) ==
    IF inPlayable(x, y) /\ ~isSpawn(x, y)
    THEN [grid EXCEPT ![Idx(x, y)] = BIOME_MOUNTAIN] ELSE grid

\* one iteration of the step loop of walk; when the loop ends the primary
\* walk returns to the branch test, the branch walk to the repair passes
walkStep(g) ==
    LET grid1 == walkMark(g.grid, g.x, g.y)
        s1 == rngAdvance(g.rng)
        turn == Less32(rngOut(s1), P30)
        s2 == IF turn THEN rngAdvance(s1) ELSE s1
        dir1 == IF turn
                THEN (g.dir + (IF Less32(rngOut(s2), P50) THEN 1 ELSE 3)) % 4
                ELSE g.dir
        m == tryMove(grid1, g.x, g.y, dir1, 0)
        over == ~m.moved \/ g.step + 1 >= g.length
    IN  [g EXCEPT !.grid = grid1, !.rng = s2, !.x = m.x, !.y = m.y, !.dir = m.dir,
                  !.step = IF m.moved THEN g.step + 1 ELSE g.step,
                  !.pc = IF ~over THEN "walk"
                         ELSE IF g.primary THEN "branch" ELSE "repair"]

\* mc: the mountain cells of the playable area, row by row (cx from cx on
\* in row cy, then the rows from cy on)
RECURSIVE mountainRow(_, _, _)
mountainRow(grid, cy, cx) ==
    IF cx > 12 THEN <<>>
    ELSE (IF grid[Idx(cx, cy)] = BIOME_MOUNTAIN THEN <<Idx(cx, cy)>> ELSE <<>>)
         \o mountainRow(grid, cy, cx + 1)

RECURSIVE mountainCells(_, _)
mountainCells(grid, cy) ==
    IF cy > 12 THEN <<>>
    ELSE mountainRow(grid, cy, 3) \o mountainCells(grid, cy + 1)

\* if (rng() < 0.65) { .. walk(sc.x, sc.y, 2 + Math.floor(rng() * 5)) }
ridgeBranch(g) ==
    LET s1 == rngAdvance(g.rng)
        mc == mountainCells(g.grid, 3)
        s2 == rngAdvance(s1)
        sc == mc[1 + FloorMul(rngOut(s2), Len(mc))]
    IN  IF Less32(rngOut(s1), P65) /\ Len(mc) > 0
        THEN walkEnter(g, s2, CellX(sc), CellY(sc), 2, 5, FALSE)
        ELSE [g EXCEPT !.rng = s1, !.pc = "repair"]

\* the eight trial types for cell c: the state of the loop after `tries`
RECURSIVE tryTypes(_, _, _, _, _, _)
tryTypes(grid, c, s, tries, leastConflicts, bestType) ==
    IF tries = 8 THEN [rng |-> s, bestType |-> bestType]
    ELSE LET s1 == rngAdvance(s)
             tr == rngOut(s1)
             tryType == IF Less32(tr, P40) THEN BIOME_PLAINS
                        ELSE IF Less32(tr, P70) THEN BIOME_HILLS ELSE BIOME_BEACH
             n == wm_checkConflicts([grid EXCEPT ![c] = tryType],
                                    CellX(c), CellY(c), 1)
         IN  IF n < leastConflicts
             THEN tryTypes(grid, c, s1, tries + 1, n, tryType)
             ELSE tryTypes(grid, c, s1, tries + 1, leastConflicts, bestType)

\* mutant: a conflicting cell is made BEACH, whatever the trials give
repairIter_beach(g) ==
    LET s1 == rngAdvance(g.rng)
        s2 == rngAdvance(s1)
        gx == FloorMul(rngOut(s1), WORLD_MAP_SIZE)
        gy == FloorMul(rngOut(s2), WORLD_MAP_SIZE)
        numConflicts == wm_checkConflicts(g.grid, gx, gy, 1)
    IN  IF g.grid[Idx(gx, gy)] = BIOME_MOUNTAIN \/ numConflicts = 0
        THEN [g EXCEPT !.rng = s2, !.iter = g.iter + 1]
        ELSE [g EXCEPT !.rng = s2, !.iter = g.iter + 1, !.anyConflict = TRUE,
                       !.grid = [g.grid EXCEPT ![Idx(gx, gy)] = BIOME_BEACH]]

\* one iteration of the inner loop of the minimum-conflicts passes
repairIter(g) ==
    LET s1 == rngAdvance(g.rng)
        s2 == rngAdvance(s1)
        gx == FloorMul(rngOut(s1), WORLD_MAP_SIZE)
        gy == FloorMul(rngOut(s2), WORLD_MAP_SIZE)
        numConflicts == wm_checkConflicts(g.grid, gx, gy, 1)
        t == tryTypes(g.grid, Idx(gx, gy), s2, 0, numConflicts, g.grid[Idx(gx, gy)])
    IN  IF g.grid[Idx(gx, gy)] = BIOME_MOUNTAIN \/ numConflicts = 0
        THEN [g EXCEPT !.rng = s2, !.iter = g.iter + 1]
        ELSE [g EXCEPT !.rng = t.rng, !.iter = g.iter + 1, !.anyConflict = TRUE,
                       !.grid = [g.grid EXCEPT ![Idx(gx, gy)] = t.bestType]]

\* the end of one pass: if (!anyConflict) break; and the test pass < maxPasses
passEnd(g) ==
    IF ~g.anyConflict \/ g.pass + 1 >= maxPasses
    THEN [g EXCEPT !.pc = "transition"]
    ELSE [g EXCEPT !.pass = g.pass + 1, !.iter = 0, !.anyConflict = FALSE]

\* insertTransitionBiomes(grid); return grid
finish(g) == [g EXCEPT !.grid = insertTransitionBiomes(g.grid), !.pc = "done"]

total == WORLD_MAP_SIZE * WORLD_MAP_SIZE

stepWorld(g) ==
    CASE g.pc = "voronoi" -> voronoiSeed(g)
      [] g.pc = "classify" -> voronoiClassify(g)
      [] g.pc = "ridge" -> ridgeStart(g)
      [] g.pc = "walk" -> walkStep(g)
      [] g.pc = "branch" -> ridgeBranch(g)
      [] g.pc = "repair" /\ g.iter < total -> repairIter(g)
      [] g.pc = "repair" /\ g.iter >= total -> passEnd(g)
      [] g.pc = "transition" -> finish(g)

\* up to 2^k steps from g, stopping at the return
RECURSIVE runWorld(_, _)
runWorld(g, k) ==
    IF g.pc = "done" THEN g
    ELSE IF k = 0 THEN stepWorld(g)
    ELSE runWorld(runWorld(g, k - 1), k - 1)

\* the grid generateWorldMap(seed) returns: the passes end within
\* maxPasses * (total + 1) steps, the phases before them within 2^7
generateWorldMap(seed) == runWorld(wmStart(seed), 15).grid

(***************************************************************************)
(* State.                                                                  *)
(*   seedStr        the argument of the generateTerrain call in progress   *)
(*                  or last made                                           *)
(*   currentSeed, proceduralMode, worldMapData   the globals of that name  *)
(*                  (worldMapData is <<>> while undefined)                 *)
(*   gen            the locals of generateWorldMap (see above)             *)
(*   prevRun        history: <<seedStr, currentSeed, worldMapData>> of the *)
(*                  generateTerrain call before the last, <<>> if none     *)
(***************************************************************************)
VARIABLES seedStr, currentSeed, proceduralMode, worldMapData, gen, prevRun

worldVars == <<seedStr, currentSeed, proceduralMode, worldMapData, gen, prevRun>>

(***************************************************************************)
(* The tile editor's rotation of an orientation key                        *)
(*   key       the key of the highlighted tile (a sequence of characters)  *)
(*   keyTrail  history: the keys the tile has had, oldest first            *)
(*   turns     history: the rotations applied, TRUE for clockwise          *)
(***************************************************************************)
VARIABLES key, keyTrail, turns

keyVars == <<key, keyTrail, turns>>

(***************************************************************************)
(* The rasterizer                                                          *)
(*   camera, renderOpts   the globals of that name                         *)
(*   tileMap        tileSystem.tileMap: tile <<tileX, tileY>> -> map index *)
(*   maps           the rasters, maps[k + 1] being the code's maps[k]; a   *)
(*                  raster's altitude and color arrays are given by rule   *)
(*                  (see altitude and color below)                         *)
(*   hiddeny        the occlusion floor of every screen column             *)
(*   depthBuffer, buf32   screendata.depthBuffer and screendata.buf32,     *)
(*                  entry idx + 1 being the code's entry idx               *)
(*   rp             the locals of the running Render_* function outside    *)
(*                  the column loop's body; its fields tested and written  *)
(*                  are history: whether the last column step reached the  *)
(*                  projection test, and the pixels it stored into         *)
(*   terrainData, finalData, heightonscreen   the locals of the column     *)
(*                  loop's body as the last column step left them:         *)
(*                  the sample taken, <<finalHeight, finalColor>>, and the  *)
(*                  projected height; null where the step did not get      *)
(*                  that far                                               *)
(*   subdividedTileCache   window.subdividedTileCache: tile -> the raster  *)
(*                  its entry was computed from                            *)
(***************************************************************************)
VARIABLES camera, renderOpts, tileMap, maps, hiddeny, depthBuffer, buf32, rp,
          terrainData, finalData, heightonscreen, subdividedTileCache

\* the locals of the column loop's body
columnVars == <<terrainData, finalData, heightonscreen>>

renderVars ==
    <<camera, renderOpts, tileMap, maps, hiddeny, depthBuffer, buf32, rp,
      columnVars, subdividedTileCache>>

(***************************************************************************)
(* A call of one of the program's pure functions                           *)
(*   args      the function called and its arguments, <<>> before the call *)
(*   result    what the call returned, <<>> until it returns               *)
(***************************************************************************)
VARIABLES args, result

callVars == <<args, result>>

(***************************************************************************)
(* The player's vertical motion (UpdateCamera)                             *)
(*   player    the fields flyMode, isChargingJump and jumpChargeTime of    *)
(*             the global of that name (jumpChargeTime in milliseconds)    *)
(*   input     the fields jump, flyUp and flyDown of the global            *)
(*   cameraY   camera.height in 1/HeightUnit and camera.velocityY in       *)
(*             1/VelUnit                                                   *)
(*   frame     the locals of the last UpdateCamera call: elapsed is        *)
(*             current - time, onGround and jumpHeld the locals of that    *)
(*             name (FALSE in fly mode, which returns before them),        *)
(*             jumpStrength the impulse applied in 1/VelUnit as a one-     *)
(*             element sequence, <<>> when none was; tick is history and   *)
(*             flips with every call                                       *)
(***************************************************************************)
VARIABLES player, input, cameraY, frame

jumpVars == <<player, input, cameraY, frame>>

(***************************************************************************)
(* The tile registry, the tile editor and the save slots                   *)
(*   registry      the six index objects window.mountainRidgeMapIndex,     *)
(*                 transitionMapIndex, wideRidgeMapIndex, foothillMapIndex,*)
(*                 hillsCapMapIndex and steepFoothillMapIndex, each a      *)
(*                 function from keys to indices of maps[] (empty while    *)
(*                 undefined)                                              *)
(*   items         the global of that name                                 *)
(*   tileEditor    the fields open and currentMapIdx of the global, and    *)
(*                 target, the tile getTargetedTile() returns              *)
(*   localStorage  slot -> <<data>> of the item voxel_save_<slot>, <<>>    *)
(*                 while there is none                                     *)
(*   heap          the number of raster objects allocated so far; a        *)
(*                 raster's id is its allocation number                    *)
(*   session       history: worlds, edits, saves and loads count the       *)
(*                 calls of this page load, pages the page loads, and      *)
(*                 snapshot[slot] is <<currentSeed, tileMap, worldMapData, *)
(*                 the rasters the tile map's indices referred to>> as     *)
(*                 they were when the slot was last written                *)
(*   updaterunning the global of that name                                 *)
(*   pendingDraws  the number of Draw callbacks requestAnimationFrame      *)
(*                 holds                                                   *)
(***************************************************************************)
VARIABLES registry, items, tileEditor, localStorage, heap, session, updaterunning,
          pendingDraws

drawVars == <<updaterunning, pendingDraws>>

editVars == <<registry, items, tileEditor, localStorage, heap, session, drawVars>>

vars == <<worldVars, keyVars, renderVars, callVars, jumpVars, editVars>>

\* the state outside the registry, the editor and the save slots
notEdit == <<keyVars, jumpVars>>

\* nothing is registered or saved
EditIdle ==
    /\ registry = <<>>
    /\ items = <<>>
    /\ tileEditor = <<>>
    /\ localStorage = <<>>
    /\ heap = 0
    /\ session = <<>>
    /\ updaterunning = FALSE
    /\ pendingDraws = 0

\* the state outside the player's motion
notJump == <<worldVars, keyVars, renderVars, callVars, editVars>>

\* the player stands still and no frame has run
JumpIdle ==
    /\ player = <<>>
    /\ input = <<>>
    /\ cameraY = <<>>
    /\ frame = <<>>

\* the state outside world generation
notWorld == <<keyVars, renderVars, callVars, jumpVars, editVars>>

\* the state outside the key rotation
notKey == <<worldVars, renderVars, callVars, jumpVars, editVars>>

\* the state outside the rasterizer
notRender == <<worldVars, keyVars, callVars, jumpVars, editVars>>

\* the state outside the call
notCall == <<worldVars, keyVars, renderVars, jumpVars, editVars>>

\* no call is in progress
CallIdle ==
    /\ args = <<>>
    /\ result = <<>>

\* the seed strings typed into the seed menu
SeedStrs == {<<>>, <<" ">>, <<"1", "2">>, <<"2", "3">>, <<"3", "7">>, <<"b">>}

\* the values (Date.now() ^ (Math.random() * 0xFFFFFFFF)) >>> 0 may take
ClockSeeds == {<<0, 23>>, <<0, 46>>}

wmIdle ==
    [pc |-> "idle", rng |-> <<0, 0>>, grid |-> <<>>, numSeeds |-> 0, voronoi |-> <<>>,
     att |-> 0, x |-> 0, y |-> 0, dir |-> 0, step |-> 0, length |-> 0,
     primary |-> TRUE, pass |-> 0, iter |-> 0, anyConflict |-> FALSE]

WorldInit ==
    /\ seedStr = <<>>
    /\ currentSeed = <<0, 0>>
    /\ proceduralMode = FALSE
    /\ worldMapData = <<>>
    /\ gen = wmIdle
    /\ prevRun = <<>>

\* no tile is highlighted
KeyIdle ==
    /\ key = <<>>
    /\ keyTrail = <<>>
    /\ turns = <<>>

\* a raster whose altitude is low on the cells of one colour of a chequerboard
\* of cell x cell texels and low + rise on the others, coloured tintA and
\* tintB (colours are <<alpha, red, green, blue>>)
Raster(size, shift, heightScale, low, rise, cell, tintA, tintB) ==
    [width |-> size, height |-> size, shift |-> shift, heightScale |-> heightScale,
     low |-> low, rise |-> rise, cell |-> cell, tintA |-> tintA, tintB |-> tintB]

\* map, map2, map3, map4 as declared, before any image is loaded
blankMaps ==
    <<Raster(1024, 10, 1, 0, 0, 1, <<0, 0, 0, 0>>, <<0, 0, 0, 0>>),
      Raster(1024, 10, 1, 0, 0, 1, <<0, 0, 0, 0>>, <<0, 0, 0, 0>>),
      Raster(1024, 10, 25, 0, 0, 1, <<0, 0, 0, 0>>, <<0, 0, 0, 0>>),
      Raster(4096, 12, 10, 0, 0, 1, <<0, 0, 0, 0>>, <<0, 0, 0, 0>>)>>

cameraDefault ==
    [x |-> 512, y |-> 400, height |-> 78, angle |-> 0, horizon |-> 100,
     distance |-> 1000, focalLength |-> 300]

renderOptsDefault ==
    [tileCulling |-> TRUE, bilinearFilter |-> TRUE, depthInterp |-> TRUE,
     tileBlending |-> TRUE, renderMode |-> "subdivided"]

\* no Render_* function is running
rpIdle ==
    [pc |-> "idle", z |-> 0, deltaz |-> 0, i |-> 0, plx |-> 0, ply |-> 0,
     dx |-> 0, dy |-> 0, prevHeights |-> <<>>, prevColors |-> <<>>, prevZ |-> 0,
     currentHeights |-> <<>>, currentColors |-> <<>>, tileCacheX |-> <<>>,
     tileCacheY |-> <<>>, tileCacheMapIndex |-> <<>>, tileCacheValid |-> <<>>,
     tested |-> FALSE, written |-> {}, slices |-> 0]

\* the page before its canvas exists
RenderIdle ==
    /\ camera = cameraDefault
    /\ renderOpts = renderOptsDefault
    /\ tileMap = <<>>
    /\ maps = blankMaps
    /\ hiddeny = <<>>
    /\ depthBuffer = <<>>
    /\ buf32 = <<>>
    /\ rp = rpIdle
    /\ terrainData = <<>>
    /\ finalData = <<>>
    /\ heightonscreen = <<>>
    /\ subdividedTileCache = <<>>

\* generateTerrain(seedStr) up to its call of generateWorldMap
GenerateTerrain(str, clock) ==
    /\ gen.pc \in {"idle", "done"}
    /\ seedStr' = str
    /\ currentSeed' = hashSeedStr(str, clock)
    /\ proceduralMode' = TRUE
    /\ gen' = wmStart(hashSeedStr(str, clock))
    /\ prevRun' = IF gen.pc = "done" THEN <<seedStr, currentSeed, worldMapData>> ELSE prevRun
    /\ UNCHANGED <<worldMapData, notWorld>>

WorldStep(pc, next) ==
    /\ gen.pc = pc
    /\ gen' = next
    /\ UNCHANGED <<seedStr, currentSeed, proceduralMode, worldMapData, prevRun, notWorld>>

VoronoiSeed == WorldStep("voronoi", voronoiSeed(gen))

VoronoiClassify == WorldStep("classify", voronoiClassify(gen))

RidgeStart == WorldStep("ridge", ridgeStart(gen))

WalkStep == WorldStep("walk", walkStep(gen))

RidgeBranch == WorldStep("branch", ridgeBranch(gen))

RepairIter == gen.iter < total /\ WorldStep("repair", repairIter(gen))

PassEnd == gen.iter >= total /\ WorldStep("repair", passEnd(gen))

\* the transition pass and window.worldMapData = generateWorldMap(baseSeed)
Finish ==
    /\ gen.pc = "transition"
    /\ gen' = finish(gen)
    /\ worldMapData' = finish(gen).grid
    /\ UNCHANGED <<seedStr, currentSeed, proceduralMode, prevRun, notWorld>>

WorldNext ==
    \/ \E str \in SeedStrs, clock \in ClockSeeds : GenerateTerrain(str, clock)
    \/ VoronoiSeed
    \/ VoronoiClassify
    \/ RidgeStart
    \/ WalkStep
    \/ RidgeBranch
    \/ RepairIter
    \/ PassEnd
    \/ Finish

InitWorld == WorldInit /\ KeyIdle /\ RenderIdle /\ CallIdle /\ JumpIdle /\ EditIdle

SpecWorld == InitWorld /\ [][WorldNext]_vars

(***************************************************************************)
(* Properties of the world map                                             *)
(***************************************************************************)
\* the in-bounds cells next to (gx, gy): the four cardinal ones, all eight
Cardinal(gx, gy) ==
    {Idx(gx + d[1], gy + d[2]) :
        d \in {e \in {<<0, -1>>, <<0, 1>>, <<-1, 0>>, <<1, 0>>} :
                  gx + e[1] \in Coord /\ gy + e[2] \in Coord}}

Around(gx, gy) ==
    {Idx(gx + d[1], gy + d[2]) :
        d \in {e \in ((-1 .. 1) \X (-1 .. 1)) :
                  e # <<0, 0>> /\ gx + e[1] \in Coord /\ gy + e[2] \in Coord}}

HasBeachAround(grid, c) == \E d \in Around(CellX(c), CellY(c)) : grid[d] = BIOME_BEACH

\* C1: in the grid returned by generateWorldMap no BEACH cell has a HILLS or
\* MOUNTAIN cell as its north, south, east or west neighbour.
C1_BeachApart ==
    gen.pc = "done" =>
        \A c \in Cells :
            worldMapData[c] = BIOME_BEACH =>
                \A d \in Cardinal(CellX(c), CellY(c)) :
                    worldMapData[d] \notin {BIOME_HILLS, BIOME_MOUNTAIN}

\* C2: in the grid returned by generateWorldMap the two spawn cells (8,8) and
\* (9,8) are BEACH.
C2_SpawnBeach ==
    gen.pc = "done" =>
        /\ worldMapData[Idx(8, 8)] = BIOME_BEACH
        /\ worldMapData[Idx(9, 8)] = BIOME_BEACH

\* C3: the transition pass changes a cell exactly when, before the pass, the
\* cell was PLAINS and had a BEACH cell among its in-bounds 8 neighbours; a
\* changed cell becomes TRANSITION; and in the returned grid no PLAINS cell
\* is 8-adjacent to a BEACH cell.
C3_TransitionPass ==
    gen.pc = "transition" =>
        \A c \in Cells :
            /\ (worldMapData'[c] # gen.grid[c]) <=>
                   (gen.grid[c] = BIOME_PLAINS /\ HasBeachAround(gen.grid, c))
            /\ worldMapData'[c] # gen.grid[c] => worldMapData'[c] = BIOME_TRANSITION
            /\ ~(worldMapData'[c] = BIOME_PLAINS /\ HasBeachAround(worldMapData', c))

C3_TransitionExact == [][C3_TransitionPass]_vars

\* a returned grid with a TRANSITION cell that touches BEACH only diagonally,
\* and with PLAINS cells left
C3_Witness ==
    /\ gen.pc = "done"
    /\ \E c \in Cells :
        /\ worldMapData[c] = BIOME_TRANSITION
        /\ \A d \in Cardinal(CellX(c), CellY(c)) : worldMapData[d] # BIOME_BEACH
    /\ \E c \in Cells : worldMapData[c] = BIOME_PLAINS

\* the last two completed runs of generateTerrain had the same seed string
SameStringTwice == gen.pc = "done" /\ prevRun # <<>> /\ prevRun[1] = seedStr

\* C4 as stated: for every seed string, two runs of generateTerrain with that
\* string give the same currentSeed and the same worldMapData.
C4_EveryString ==
    SameStringTwice => prevRun[2] = currentSeed /\ prevRun[3] = worldMapData

\* C4 amended: for every seed string that is not blank (not empty and not
\* only white space), two runs of generateTerrain with that string give the
\* same currentSeed and the same worldMapData, whatever the clock reads.
C4_NonBlankString ==
    (SameStringTwice /\ ~IsBlank(seedStr)) =>
        prevRun[2] = currentSeed /\ prevRun[3] = worldMapData

\* two completed runs with the same non-numeric string
C4_Witness ==
    /\ SameStringTwice
    /\ ~IsBlank(seedStr)
    /\ ParseIntU32(seedStr) = <<>>
    /\ worldMapData # <<>>

(***************************************************************************)
(* rotateKey (worldSave.js).  A key is a sequence of characters.           *)
(***************************************************************************)
ISO == <<"I", "S", "O">>

PEAK == <<"P", "E", "A", "K">>

PEAK1 == <<"P", "E", "A", "K", "1">>

CAP(d) == <<d, "_", "C", "A", "P">>

HCAP(d) == <<d, "_", "H", "C", "A", "P">>

SF(d) == <<d, "2">>

capCW == (CAP("N") :> CAP("E")) @@ (CAP("E") :> CAP("S"))
         @@ (CAP("S") :> CAP("W")) @@ (CAP("W") :> CAP("N"))

capCCW == (CAP("N") :> CAP("W")) @@ (CAP("W") :> CAP("S"))
          @@ (CAP("S") :> CAP("E")) @@ (CAP("E") :> CAP("N"))

hcapCW == (HCAP("N") :> HCAP("E")) @@ (HCAP("E") :> HCAP("S"))
          @@ (HCAP("S") :> HCAP("W")) @@ (HCAP("W") :> HCAP("N"))

hcapCCW == (HCAP("N") :> HCAP("W")) @@ (HCAP("W") :> HCAP("S"))
           @@ (HCAP("S") :> HCAP("E")) @@ (HCAP("E") :> HCAP("N"))

sfCW == (SF("N") :> SF("E")) @@ (SF("E") :> SF("S"))
        @@ (SF("S") :> SF("W")) @@ (SF("W") :> SF("N"))

sfCCW == (SF("N") :> SF("W")) @@ (SF("W") :> SF("S"))
         @@ (SF("S") :> SF("E")) @@ (SF("E") :> SF("N"))

cw == ("N" :> "E") @@ ("E" :> "S") @@ ("S" :> "W") @@ ("W" :> "N")

ccw == ("N" :> "W") @@ ("W" :> "S") @@ ("S" :> "E") @@ ("E" :> "N")

\* the letters of k looked up in rot (a letter outside rot gives undefined
\* and sets no flag), written out in the order N, S, E, W
rotateLetters(k, rot) ==
    LET has(d) == \E i \in 1 .. Len(k) : k[i] \in DOMAIN rot /\ rot[k[i]] = d
        out == (IF has("N") THEN <<"N">> ELSE <<>>)
               \o (IF has("S") THEN <<"S">> ELSE <<>>)
               \o (IF has("E") THEN <<"E">> ELSE <<>>)
               \o (IF has("W") THEN <<"W">> ELSE <<>>)
    IN  IF out = <<>> THEN k ELSE out

\* variant: ISO and C are not skipped
rotateKey_noSkip(k, clockwise) ==
    IF k = PEAK THEN PEAK1
    ELSE IF k = PEAK1 THEN PEAK
    ELSE IF k \in DOMAIN capCW THEN (IF clockwise THEN capCW[k] ELSE capCCW[k])
    ELSE IF k \in DOMAIN hcapCW THEN (IF clockwise THEN hcapCW[k] ELSE hcapCCW[k])
    ELSE IF k \in DOMAIN sfCW THEN (IF clockwise THEN sfCW[k] ELSE sfCCW[k])
    ELSE rotateLetters(k, IF clockwise THEN cw ELSE ccw)

rotateKey(k, clockwise) ==
    IF k = ISO \/ k = <<"C">> THEN k
    ELSE IF k = PEAK THEN PEAK1
    ELSE IF k = PEAK1 THEN PEAK
    ELSE IF k \in DOMAIN capCW THEN (IF clockwise THEN capCW[k] ELSE capCCW[k])
    ELSE IF k \in DOMAIN hcapCW THEN (IF clockwise THEN hcapCW[k] ELSE hcapCCW[k])
    ELSE IF k \in DOMAIN sfCW THEN (IF clockwise THEN sfCW[k] ELSE sfCCW[k])
    ELSE rotateLetters(k, IF clockwise THEN cw ELSE ccw)

\* the subset D of the four directions written in the order N, S, E, W
dirKey(D) ==
    (IF "N" \in D THEN <<"N">> ELSE <<>>) \o (IF "S" \in D THEN <<"S">> ELSE <<>>)
    \o (IF "E" \in D THEN <<"E">> ELSE <<>>) \o (IF "W" \in D THEN <<"W">> ELSE <<>>)

Dirs == {"N", "S", "E", "W"}

\* the keys of all families
OrientationKeys ==
    {dirKey(D) : D \in SUBSET Dirs} \cup {ISO, <<"C">>, PEAK, PEAK1}
    \cup {CAP(d) : d \in Dirs} \cup {HCAP(d) : d \in Dirs} \cup {SF(d) : d \in Dirs}

\* the number of rotations followed
MaxTurns == 4

KeyInit ==
    /\ key \in OrientationKeys
    /\ keyTrail = <<key>>
    /\ turns = <<>>

\* an arrow key: the highlighted tile's key is rotated
RotateKey(clockwise) ==
    /\ Len(turns) < MaxTurns
    /\ key' = rotateKey(key, clockwise)
    /\ keyTrail' = Append(keyTrail, rotateKey(key, clockwise))
    /\ turns' = Append(turns, clockwise)
    /\ UNCHANGED notKey

KeyNext == \E clockwise \in BOOLEAN : RotateKey(clockwise)

InitKey == WorldInit /\ KeyInit /\ RenderIdle /\ CallIdle /\ JumpIdle /\ EditIdle

SpecKey == InitKey /\ [][KeyNext]_vars

\* C5: for every orientation key of every family, a clockwise rotation
\* followed by a counter-clockwise one gives the key back, and four
\* clockwise rotations give the key back.
C5_RotateKeyCycle ==
    /\ \A i \in 1 .. Len(turns) - 1 :
           (turns[i] /\ ~turns[i + 1]) => keyTrail[i + 2] = keyTrail[i]
    /\ \A i \in 1 .. Len(turns) - 3 :
           (\A j \in i .. i + 3 : turns[j]) => keyTrail[i + 4] = keyTrail[i]

\* four clockwise rotations of a two-letter key that pass through a key
\* whose letters had to be put back in NSEW order
C5_Witness ==
    /\ turns = <<TRUE, TRUE, TRUE, TRUE>>
    /\ keyTrail[1] = <<"N", "E">>
    /\ keyTrail[2] = <<"S", "E">>
    /\ key = <<"N", "E">>

(***************************************************************************)
(* The terrain sampler (voxelEngine.js).                                   *)
(* With the camera looking along a map axis every sample position of a     *)
(* pass is a multiple of 1 / PosUnit and every slice depth a multiple of   *)
(* 1 / ZUnit: positions (x, y, localX, plx, dx, ...) are integers counting *)
(* 1 / PosUnit, depths (z, deltaz, prevZ) integers counting 1 / ZUnit, and *)
(* heights, blend factors and screen rows are rationals.                   *)
(***************************************************************************)
ScreenW == 2

ScreenH == 6

\* deltaz grows by 0.005 = 1 / ZUnit
ZUnit == 200

PosUnit == ZUnit * ScreenW

tileWidth == 1024

tileHeight == 1024

overlapSize == 128

maxTileDistance == 1000

\* bilinear filtering and depth interpolation apply for z < filterRange
filterRange == 600

\* a world coordinate as a position
P(n) == n * PosUnit

\* Math.floor of a position, and what is left of it
Floor(p) == p \div PosUnit

Frac(p) == Rat(p % PosUnit, PosUnit)

\* v & (size - 1), size a power of two
Wrap(v, size) == v % size

\* what a sampler returns: a sample, null, or the TypeError it throws when it
\* reads a field of maps[k] for a k outside maps
Sample(height, color) == <<height, color>>

null == <<>>

TypeError == <<"TypeError">>

isNull(s) == Len(s) = 0

isThrown(s) == Len(s) = 1

hasMap(mapIndex) == (mapIndex + 1) \in DOMAIN maps

\* m.altitude[offset] and m.color[offset]
onTintA(m, offset) ==
    (((offset % m.width) \div m.cell) + ((offset \div m.width) \div m.cell)) % 2 = 0

altitude(m, offset) == IF onTintA(m, offset) THEN m.low ELSE m.low + m.rise

color(m, offset) == IF onTintA(m, offset) THEN m.tintA ELSE m.tintB

\* Math.min and Math.max
RatMin(r, s) == IF RatLess(s, r) THEN s ELSE r

RatMax(r, s) == IF RatLess(r, s) THEN s ELSE r

\* (an interpolation that runs from b to a)
lerp_swapped(a, b, t) == RatAdd(b, RatMul(RatSub(a, b), t))

lerp(a, b, t) == RatAdd(a, RatMul(RatSub(b, a), t))

clamp(value, min, max) == RatMax(min, RatMin(max, value))

\* clamp on integers
clampInt(value, min, max) ==
    IF value > max THEN (IF max < min THEN min ELSE max)
    ELSE IF value < min THEN min ELSE value

\* one colour channel of blendColors, t already clamped
blendChannel(c1, c2, t) == clampInt(RatFloor(lerp(RatInt(c1), RatInt(c2), t)), 0, 255)

\* blendColors after its first line; a colour is <<alpha, r, g, b>>
blendClamped(color1, color2, t) ==
    [c \in 1 .. 4 |-> IF c = 1 THEN 255 ELSE blendChannel(color1[c], color2[c], t)]

\* (a blend without the clamp of its first line)
blendColors_unclamped(color1, color2, t) == blendClamped(color1, color2, t)

blendColors(color1, color2, t) ==
    blendClamped(color1, color2, clamp(t, RatInt(0), RatInt(1)))

\* mutant: tile cells as wide as the rasters
getTileCoords_rasterWide(x, y) ==
    <<x \div P(tileWidth), y \div P(tileHeight)>>

getTileCoords(x, y) ==
    <<x \div P(tileWidth - overlapSize), y \div P(tileHeight - overlapSize)>>

getTileStartPos(tileX, tileY) ==
    <<tileX * (tileWidth - overlapSize), tileY * (tileHeight - overlapSize)>>

getTileKey(tileX, tileY) == <<tileX, tileY>>

\* the pair "height = lerp(.., .., t); color = blendColors(.., .., t)" that
\* every interpolation of two samples is
blendSample(s1, s2, t) ==
    Sample(lerp(s1[1], s2[1], t), blendColors(s1[2], s2[2], t))

\* the texel at offset, its height not yet scaled
texel(m, offset) == Sample(RatInt(altitude(m, offset)), color(m, offset))

\* the four corner samples of sampleBilinear, corners[row][column]
corners(m, x0, y0) ==
    [row \in 1 .. 2 |-> [col \in 1 .. 2 |->
        texel(m, (Wrap(y0 + row - 1, m.height) * (2 ^ m.shift))
                 + Wrap(x0 + col - 1, m.width))]]

\* top row and bottom row interpolated along x
bilinearRows(c, fx) == [row \in 1 .. 2 |-> blendSample(c[row][1], c[row][2], fx)]

\* the rows interpolated along y, and the height scaled
scaleHeight(s, heightScale) == Sample(RatMul(s[1], RatInt(heightScale)), s[2])

bilinearOf(rows, fy, heightScale) ==
    scaleHeight(blendSample(rows[1], rows[2], fy), heightScale)

bilinear(c, fx, fy, heightScale) == bilinearOf(bilinearRows(c, fx), fy, heightScale)

sampleBilinear(m, x, y) ==
    bilinear(corners(m, Floor(x), Floor(y)), Frac(x), Frac(y), m.heightScale)

\* the nearest-neighbour sample of the code's else branches
sampleNearest(m, x, y) ==
    LET mapX == Wrap(Floor(x), m.width)
        mapY == Wrap(Floor(y), m.height)
        offset == (mapY * (2 ^ m.shift)) + mapX
    IN  Sample(RatInt(altitude(m, offset) * m.heightScale), color(m, offset))

sampleMap(m, x, y, useBilinear) ==
    IF useBilinear THEN sampleBilinear(m, x, y) ELSE sampleNearest(m, x, y)

\* (a renderer that culls no tile)
tileTooFar_never(startX, startY) == FALSE

\* Math.hypot(tileCenterX - camera.x, tileCenterY - camera.y) > maxTileDistance
tileTooFar(startX, startY) ==
    LET tileCenterX == startX + (tileWidth \div 2)
        tileCenterY == startY + (tileHeight \div 2)
    IN  ((tileCenterX - camera.x) * (tileCenterX - camera.x))
        + ((tileCenterY - camera.y) * (tileCenterY - camera.y))
        > maxTileDistance * maxTileDistance

\* Which branch of getTerrainData a position of tile coords falls into, as
\* the samples the branch takes: taps is the sequence of <<tileKey, x, y>>
\* sampled (two in an overlap zone, one in the regular branch, none when the
\* function falls through to its last line) and t counts the blend factor
\* in 1 / P(overlapSize).
Zone(taps, t) == [taps |-> taps, t |-> t]

overlapZone(tileBlending, coords, localX, localY) ==
    LET tileKey == getTileKey(coords[1], coords[2])
        overlapStartX == tileWidth - overlapSize
        overlapStartY == tileHeight - overlapSize
        leftKey == getTileKey(coords[1] - 1, coords[2])
        rightKey == getTileKey(coords[1] + 1, coords[2])
        topKey == getTileKey(coords[1], coords[2] - 1)
        bottomKey == getTileKey(coords[1], coords[2] + 1)
    IN  IF /\ tileBlending
           /\ localX >= 0 /\ localX < P(overlapSize) /\ leftKey \in DOMAIN tileMap
        THEN Zone(<<<<leftKey, P(tileWidth - overlapSize) + localX, localY>>,
                    <<tileKey, localX, localY>>>>, localX)
        ELSE IF /\ tileBlending
                /\ localX >= P(overlapStartX) /\ localX < P(tileWidth)
                /\ rightKey \in DOMAIN tileMap
        THEN Zone(<<<<tileKey, localX, localY>>,
                    <<rightKey, localX - P(overlapStartX), localY>>>>,
                  localX - P(overlapStartX))
        ELSE IF /\ tileBlending
                /\ localY >= 0 /\ localY < P(overlapSize) /\ topKey \in DOMAIN tileMap
        THEN Zone(<<<<topKey, localX, P(tileHeight - overlapSize) + localY>>,
                    <<tileKey, localX, localY>>>>, localY)
        ELSE IF /\ tileBlending
                /\ localY >= P(overlapStartY) /\ localY < P(tileHeight)
                /\ bottomKey \in DOMAIN tileMap
        THEN Zone(<<<<tileKey, localX, localY>>,
                    <<bottomKey, localX, localY - P(overlapStartY)>>>>,
                  localY - P(overlapStartY))
        ELSE IF localX >= 0 /\ localX < P(tileWidth) /\ localY >= 0 /\ localY < P(tileHeight)
        THEN Zone(<<<<tileKey, localX, localY>>>>, 0)
        ELSE Zone(<<>>, 0)

\* (a sampler that blends whatever renderOpts.tileBlending says)
terrainZone_blending(coords, localX, localY) == overlapZone(TRUE, coords, localX, localY)

terrainZone(coords, localX, localY) ==
    overlapZone(renderOpts.tileBlending, coords, localX, localY)

\* what the branch returns from the samples it took
zoneResult(zone, samples) ==
    IF Len(samples) = 1 THEN samples[1]
    ELSE blendSample(samples[1], samples[2],
                     clamp(Rat(zone.t, P(overlapSize)), RatInt(0), RatInt(1)))

\* the branch: its maps looked up, the samples taken, the result
zoneData(zone, useBilinear) ==
    IF zone.taps = <<>> THEN null
    ELSE IF \E k \in 1 .. Len(zone.taps) : ~hasMap(tileMap[zone.taps[k][1]]) THEN TypeError
    ELSE zoneResult(zone,
                    [k \in 1 .. Len(zone.taps) |->
                        sampleMap(maps[tileMap[zone.taps[k][1]] + 1],
                                  zone.taps[k][2], zone.taps[k][3], useBilinear)])

getTerrainData(x, y, z) ==
    LET useBilinear == renderOpts.bilinearFilter /\ z < filterRange * ZUnit
        coords == getTileCoords(x, y)
        tilePos == getTileStartPos(coords[1], coords[2])
        tileKey == getTileKey(coords[1], coords[2])
        localX == x - P(tilePos[1])
        localY == y - P(tilePos[2])
    IN  IF tileKey \notin DOMAIN tileMap THEN null
        ELSE IF renderOpts.tileCulling /\ tileTooFar(tilePos[1], tilePos[2]) THEN null
        ELSE zoneData(terrainZone(coords, localX, localY), useBilinear)

(***************************************************************************)
(* The sampler of Render_Subdivided                                        *)
(***************************************************************************)
tileSize == 1024

quarterSize == 256

\* the base map
map == maps[1]

\* the 32-bit two's complement of an integer
ToU32(n) ==
    IF n >= 0 THEN U32(n)
    ELSE <<(W16 - 1) - (((-n) - 1) \div W16), (W16 - 1) - (((-n) - 1) % W16)>>

isSubdivided(tileX, tileY) ==
    LET h == Xor32(Imul(ToU32(tileX), <<1126, 62557>>),
                   Imul(ToU32(tileY), <<295, 16543>>))
        hash == ((h[1] % 32768) * W16) + h[2]
    IN  hash % 3 = 0

\* t * t * (3 - 2 * t) for the clamped t
smoothed(t) == RatMul(RatMul(t, t), RatSub(RatInt(3), RatMul(RatInt(2), t)))

smoothstep(t) == smoothed(clamp(t, RatInt(0), RatInt(1)))

\* getSubdividedTileData: the entry of the cache, or the one built from map
\* (the cache holds the raster an entry was built from; the arrays built
\* from it are subdividedAltitude and subdividedColor)
getSubdividedTileData(tileX, tileY) ==
    IF <<tileX, tileY>> \in DOMAIN subdividedTileCache
    THEN subdividedTileCache[<<tileX, tileY>>]
    ELSE map

\* where texel dstIdx of a subdivided tile comes from in sourceMap: the
\* 4x downsampling of step 1 undone by the replication of step 2
subdividedOffset(sourceMap, dstIdx) ==
    LET srcX == ((dstIdx % tileSize) \div 4) % quarterSize
        srcY == ((dstIdx \div tileSize) \div 4) % quarterSize
    IN  (Wrap(srcY * 4, sourceMap.width) * (2 ^ sourceMap.shift))
        + Wrap(srcX * 4, sourceMap.height)

\* tileData.altitude[dstIdx] = Math.floor(altitude * 0.5), tileData.color[dstIdx]
subdividedAltitude(sourceMap, dstIdx) ==
    altitude(sourceMap, subdividedOffset(sourceMap, dstIdx)) \div 2

subdividedColor(sourceMap, dstIdx) == color(sourceMap, subdividedOffset(sourceMap, dstIdx))

\* Math.max(0, Math.min(tileSize - 1, v))
clampTexel(v) == IF v < 0 THEN 0 ELSE IF v > tileSize - 1 THEN tileSize - 1 ELSE v

\* the four corner samples of a subdivided tile, corners[row][column]
subdividedCorners(tileData, x0, y0) ==
    [row \in 1 .. 2 |-> [col \in 1 .. 2 |->
        Sample(RatInt(subdividedAltitude(tileData, (clampTexel(y0 + row - 1) * tileSize)
                                                   + clampTexel(x0 + col - 1))),
               subdividedColor(tileData, (clampTexel(y0 + row - 1) * tileSize)
                                         + clampTexel(x0 + col - 1)))]]

subdividedNearest(tileData, tileIdx) ==
    Sample(RatInt(subdividedAltitude(tileData, tileIdx) * map.heightScale),
           subdividedColor(tileData, tileIdx))

sampleTileData(tileX, tileY, localX, localY, useBilinear) ==
    IF ~isSubdivided(tileX, tileY) THEN sampleMap(map, localX, localY, useBilinear)
    ELSE IF useBilinear
    THEN bilinear(subdividedCorners(getSubdividedTileData(tileX, tileY),
                                    Floor(localX), Floor(localY)),
                  Frac(localX), Frac(localY), map.heightScale)
    ELSE subdividedNearest(getSubdividedTileData(tileX, tileY),
                           (Floor(localY) * tileSize) + Floor(localX))

\* the branch a subdivided-mode column takes, as the samples it takes (the
\* tileKey of a tap being the tile <<tileX, tileY>>)
subdividedZone(worldX, worldY) ==
    LET tileAdvanceX == tileSize - overlapSize
        tileAdvanceY == tileSize - overlapSize
        tileX == worldX \div P(tileAdvanceX)
        tileY == worldY \div P(tileAdvanceY)
        localX == worldX - P(tileX * tileAdvanceX)
        localY == worldY - P(tileY * tileAdvanceY)
        overlapStartX == tileSize - overlapSize
        overlapStartY == tileSize - overlapSize
        here == <<tileX, tileY>>
    IN  IF ~renderOpts.tileBlending
        THEN Zone(<<<<here, localX, localY>>>>, 0)
        ELSE IF localX >= 0 /\ localX < P(overlapSize)
        THEN Zone(<<<<<<tileX - 1, tileY>>, P(tileSize - overlapSize) + localX, localY>>,
                    <<here, localX, localY>>>>, localX)
        ELSE IF localX >= P(overlapStartX) /\ localX < P(tileSize)
        THEN Zone(<<<<here, localX, localY>>,
                    <<<<tileX + 1, tileY>>, localX - P(overlapStartX), localY>>>>,
                  localX - P(overlapStartX))
        ELSE IF localY >= 0 /\ localY < P(overlapSize)
        THEN Zone(<<<<<<tileX, tileY - 1>>, localX, P(tileSize - overlapSize) + localY>>,
                    <<here, localX, localY>>>>, localY)
        ELSE IF localY >= P(overlapStartY) /\ localY < P(tileSize)
        THEN Zone(<<<<here, localX, localY>>,
                    <<<<tileX, tileY + 1>>, localX, localY - P(overlapStartY)>>>>,
                  localY - P(overlapStartY))
        ELSE Zone(<<<<here, localX, localY>>>>, 0)

\* finalAltitude and finalColor from the samples the branch took
subdividedResult(zone, samples) ==
    IF Len(samples) = 1 THEN samples[1]
    ELSE blendSample(samples[1], samples[2], smoothstep(Rat(zone.t, P(overlapSize))))

zoneSample(zone, useBilinear) ==
    subdividedResult(zone,
                     [k \in 1 .. Len(zone.taps) |->
                         sampleTileData(zone.taps[k][1][1], zone.taps[k][1][2],
                                        zone.taps[k][2], zone.taps[k][3], useBilinear)])

\* finalAltitude and finalColor of a subdivided-mode column
subdividedSample(worldX, worldY, useBilinear) ==
    zoneSample(subdividedZone(worldX, worldY), useBilinear)

\* the cache after the column: every subdivided tile it sampled has an entry
cacheAfter(worldX, worldY) ==
    LET zone == subdividedZone(worldX, worldY)
        fresh == {t \in {zone.taps[k][1] : k \in 1 .. Len(zone.taps)} :
                     isSubdivided(t[1], t[2]) /\ t \notin DOMAIN subdividedTileCache}
    IN  [t \in (DOMAIN subdividedTileCache) \cup fresh |->
            IF t \in fresh THEN map ELSE subdividedTileCache[t]]

\* sampleTileHeight of getRawTerrainHeight: the cached subdivided tile, or
\* else the base map
sampleTileHeight(tx, ty, lx, ly) ==
    IF isSubdivided(tx, ty) /\ <<tx, ty>> \in DOMAIN subdividedTileCache
    THEN RatInt(subdividedAltitude(subdividedTileCache[<<tx, ty>>],
                                   (Floor(ly) * tileSize) + Floor(lx))
                * map.heightScale)
    ELSE sampleNearest(map, lx, ly)[1]

\* h1 + (h2 - h1) * blendFactor
rawBlend(h1, h2, t) == RatAdd(h1, RatMul(RatSub(h2, h1), smoothstep(Rat(t, P(overlapSize)))))

\* the 'subdivided' branch of getRawTerrainHeight
rawSubdividedHeight(x, y) ==
    LET tileAdvanceX == tileSize - overlapSize
        tileAdvanceY == tileSize - overlapSize
        tileX == x \div P(tileAdvanceX)
        tileY == y \div P(tileAdvanceY)
        localX == x - P(tileX * tileAdvanceX)
        localY == y - P(tileY * tileAdvanceY)
        overlapStartX == tileSize - overlapSize
        overlapStartY == tileSize - overlapSize
    IN  IF localX >= 0 /\ localX < P(overlapSize)
        THEN rawBlend(sampleTileHeight(tileX - 1, tileY, P(tileSize - overlapSize) + localX,
                                       localY),
                      sampleTileHeight(tileX, tileY, localX, localY), localX)
        ELSE IF localX >= P(overlapStartX) /\ localX < P(tileSize)
        THEN rawBlend(sampleTileHeight(tileX, tileY, localX, localY),
                      sampleTileHeight(tileX + 1, tileY, localX - P(overlapStartX), localY),
                      localX - P(overlapStartX))
        ELSE IF localY >= 0 /\ localY < P(overlapSize)
        THEN rawBlend(sampleTileHeight(tileX, tileY - 1, localX,
                                       P(tileSize - overlapSize) + localY),
                      sampleTileHeight(tileX, tileY, localX, localY), localY)
        ELSE IF localY >= P(overlapStartY) /\ localY < P(tileSize)
        THEN rawBlend(sampleTileHeight(tileX, tileY, localX, localY),
                      sampleTileHeight(tileX, tileY + 1, localX, localY - P(overlapStartY)),
                      localY - P(overlapStartY))
        ELSE sampleTileHeight(tileX, tileY, localX, localY)

\* getRawTerrainHeight(x, y): a height, or the TypeError of getTerrainData;
\* getTerrainData is called without z, which no comparison holds of
getRawTerrainHeight(x, y) ==
    IF renderOpts.renderMode \in {"tiled", "cached"}
    THEN LET data == getTerrainData(x, y, filterRange * ZUnit)
         IN  IF isThrown(data) THEN TypeError
             ELSE IF isNull(data) THEN RatInt(0) ELSE data[1]
    ELSE IF renderOpts.renderMode = "subdivided" THEN rawSubdividedHeight(x, y)
    ELSE LET mapoffset == (Wrap(Floor(y), map.width) * (2 ^ map.shift))
                          + Wrap(Floor(x), map.height)
         IN  RatInt(altitude(map, mapoffset) * map.heightScale)

(***************************************************************************)
(* The rasterizer: Render and the four Render_* functions.  One step is    *)
(* the prologue with the head of the first slice (Render), one column of   *)
(* one slice (TiledColumn, CachedColumn, DirectColumn, SubdividedColumn),  *)
(* or the tail of a slice with the head of the next (NextSlice).           *)
(***************************************************************************)
\* Math.sin and Math.cos of the angles the camera takes in the model
MathSin(angle) == CASE angle = 0 -> 0

MathCos(angle) == CASE angle = 0 -> 1

\* a depth as a number
Z(z) == Rat(z, ZUnit)

zeros32(n) == [i \in 1 .. n |-> 0]

zerosF32(n) == [i \in 1 .. n |-> RatInt(0)]

zerosU32(n) == [i \in 1 .. n |-> <<0, 0, 0, 0>>]

\* (a renderer that lowers the floor whatever the projection)
risesAbove_always(onscreen, floor) == TRUE

\* onscreen < hiddeny[i]
risesAbove(onscreen, floor) == RatLess(onscreen, RatInt(floor))

\* (a renderer without the depth test)
nearer_always(z, stored) == TRUE

\* z < depth[idx]
nearer(z, stored) == RatLess(Z(z), stored)

\* the pixels the paint loop of column i stores into: k runs from first to
\* hiddeny[i] - 1, and an idx = k * sw + i outside the buffer reads
\* undefined, which z is not smaller than
paintFrom(i, first, z) ==
    {idx \in 0 .. (ScreenW * ScreenH) - 1 :
        /\ idx % ScreenW = i
        /\ idx \div ScreenW >= first
        /\ idx \div ScreenW < hiddeny[i + 1]
        /\ nearer(z, depthBuffer[idx + 1])}

\* k starts at onscreen | 0
paintLoop(i, onscreen, z) == paintFrom(i, ToInt32(onscreen), z)

\* plx += dx; ply += dy, and the column loop's i++
advance(r) ==
    [r EXCEPT !.i = r.i + 1, !.plx = r.plx + r.dx, !.ply = r.ply + r.dy,
              !.pc = IF r.i + 1 < ScreenW THEN "column" ELSE "tail"]

\* the column is passed over: continue, or a sampler that returned null
Skip ==
    /\ rp' = advance([rp EXCEPT !.tested = FALSE, !.written = {}])
    /\ UNCHANGED <<hiddeny, depthBuffer, buf32>>

\* a TypeError leaves the function
Throw ==
    /\ rp' = [rp EXCEPT !.pc = "thrown", !.tested = FALSE, !.written = {}]
    /\ UNCHANGED <<hiddeny, depthBuffer, buf32>>

\* (camera.height - finalHeight) * invz + camera.horizon
project(finalHeight, z) ==
    RatAdd(RatMul(RatSub(RatInt(camera.height), finalHeight),
                  Rat(camera.focalLength * ZUnit, z)),
           RatInt(camera.horizon))

\* the body of "if (heightonscreen < hiddeny[i])": the paint loop has stored
\* into the pixels written, and the floor is lowered
Store(r, finalColor, written) ==
    /\ hiddeny' = [hiddeny EXCEPT ![r.i + 1] = ToInt32(heightonscreen')]
    /\ depthBuffer' = [p \in 1 .. ScreenW * ScreenH |->
                          IF (p - 1) \in written THEN Fround(Z(r.z)) ELSE depthBuffer[p]]
    /\ buf32' = [p \in 1 .. ScreenW * ScreenH |->
                    IF (p - 1) \in written THEN finalColor ELSE buf32[p]]
    /\ rp' = advance([r EXCEPT !.tested = TRUE, !.written = written])

\* the projection test on the height projected, r being the locals before it
PaintAt(r, finalColor) ==
    IF risesAbove(heightonscreen', hiddeny[r.i + 1])
    THEN Store(r, finalColor, paintLoop(r.i, heightonscreen', r.z))
    ELSE /\ rp' = advance([r EXCEPT !.tested = TRUE, !.written = {}])
         /\ UNCHANGED <<hiddeny, depthBuffer, buf32>>

\* the depth interpolation of Render_Tiled and Render_Cached:
\* <<finalHeight, finalColor>>
interpolate(sample) ==
    IF rp.currentHeights # <<>> /\ rp.prevHeights # <<>> /\ rp.prevColors # <<>>
    THEN blendSample(Sample(rp.prevHeights[rp.i + 1], rp.prevColors[rp.i + 1]), sample,
                     clamp(Rat(rp.z - rp.prevZ, rp.deltaz), RatInt(0), RatInt(1)))
    ELSE sample

\* "currentHeights[i] = terrainData.height; currentColors[i] = ..."
storeCurrent(sample) ==
    IF rp.currentHeights # <<>>
    THEN [rp EXCEPT !.currentHeights[rp.i + 1] = Fround(sample[1]),
                    !.currentColors[rp.i + 1] = sample[2]]
    ELSE rp

\* the body of the column loop after "if (hiddeny[i] <= 0) continue": the
\* sample is taken, interpolated where the function does that, projected
\* and painted
Column(sample, depthInterp) ==
    /\ terrainData' = IF hiddeny[rp.i + 1] <= 0 THEN null ELSE sample
    /\ finalData' = IF isThrown(terrainData') \/ isNull(terrainData') THEN null
                    ELSE IF depthInterp THEN interpolate(terrainData')
                    ELSE terrainData'
    /\ heightonscreen' = IF isNull(finalData') THEN null
                         ELSE project(finalData'[1], rp.z)
    /\ IF isThrown(terrainData') THEN Throw
       ELSE IF isNull(terrainData') THEN Skip
       ELSE PaintAt(IF depthInterp THEN storeCurrent(terrainData') ELSE rp, finalData'[2])

\* the pre-pass of Render_Cached for column i at position <<x, y>>:
\* <<tileX, tileY, mapIndex, valid>>
cacheColumn(r, i, x, y) ==
    LET coords_tileX == x \div P(tileWidth - overlapSize)
        coords_tileY == y \div P(tileHeight - overlapSize)
        tileKey == <<coords_tileX, coords_tileY>>
        startX == coords_tileX * (tileWidth - overlapSize)
        startY == coords_tileY * (tileHeight - overlapSize)
        valid == /\ tileKey \in DOMAIN tileMap
                 /\ ~(renderOpts.tileCulling /\ tileTooFar(startX, startY))
    IN  <<coords_tileX, coords_tileY,
          IF valid THEN tileMap[tileKey] ELSE r.tileCacheMapIndex[i + 1],
          IF valid THEN 1 ELSE 0>>

\* the head of the slice at depth r.z: the loop test, the slice's locals
\* and, in Render_Cached, the pre-pass
sliceHead(r) ==
    IF ~(r.z < camera.distance * ZUnit)
    THEN [r EXCEPT !.pc = "done", !.tested = FALSE, !.written = {}]
    ELSE LET sinang == MathSin(camera.angle)
             cosang == MathCos(camera.angle)
             plx == ((-cosang * r.z) - (sinang * r.z)) * ScreenW
             ply == ((sinang * r.z) - (cosang * r.z)) * ScreenW
             prx == ((cosang * r.z) - (sinang * r.z)) * ScreenW
             pry == ((-sinang * r.z) - (cosang * r.z)) * ScreenW
             dx == (prx - plx) \div ScreenW
             dy == (pry - ply) \div ScreenW
             interp == /\ renderOpts.renderMode \in {"tiled", "cached"}
                       /\ renderOpts.depthInterp /\ r.z < filterRange * ZUnit
             cache == [i \in 0 .. ScreenW - 1 |->
                          cacheColumn(r, i, plx + P(camera.x) + (i * dx),
                                      ply + P(camera.y) + (i * dy))]
             cached == renderOpts.renderMode = "cached"
         IN  [r EXCEPT
                 !.pc = "column", !.i = 0, !.tested = FALSE, !.written = {},
                 !.slices = r.slices + 1,
                 !.plx = plx + P(camera.x), !.ply = ply + P(camera.y),
                 !.dx = dx, !.dy = dy,
                 !.currentHeights = IF interp THEN zerosF32(ScreenW) ELSE <<>>,
                 !.currentColors = IF interp THEN zerosU32(ScreenW) ELSE <<>>,
                 !.tileCacheX = IF cached THEN [i \in 1 .. ScreenW |-> cache[i - 1][1]] ELSE @,
                 !.tileCacheY = IF cached THEN [i \in 1 .. ScreenW |-> cache[i - 1][2]] ELSE @,
                 !.tileCacheMapIndex =
                     IF cached THEN [i \in 1 .. ScreenW |-> cache[i - 1][3]] ELSE @,
                 !.tileCacheValid =
                     IF cached THEN [i \in 1 .. ScreenW |-> cache[i - 1][4]] ELSE @]

\* mutant: a slice loop whose step stays as it is
sliceTail_fixedStep(r) ==
    LET useDepthInterp == r.currentHeights # <<>>
    IN  [r EXCEPT !.prevHeights = IF useDepthInterp THEN r.currentHeights ELSE @,
                  !.prevColors = IF useDepthInterp THEN r.currentColors ELSE @,
                  !.prevZ = IF useDepthInterp THEN r.z ELSE @,
                  !.z = r.z + r.deltaz]

\* mutant: z += deltaz ahead of the growth of deltaz
sliceTail_stepFirst(r) ==
    LET useDepthInterp == r.currentHeights # <<>>
        deltaz == IF r.z > 1000 * ZUnit THEN r.deltaz + 4 ELSE r.deltaz + 1
    IN  [r EXCEPT !.prevHeights = IF useDepthInterp THEN r.currentHeights ELSE @,
                  !.prevColors = IF useDepthInterp THEN r.currentColors ELSE @,
                  !.prevZ = IF useDepthInterp THEN r.z ELSE @,
                  !.deltaz = deltaz,
                  !.z = r.z + r.deltaz]

\* the tail of a slice: the previous-slice arrays, deltaz, and z += deltaz
sliceTail(r) ==
    LET useDepthInterp == r.currentHeights # <<>>
        deltaz == IF r.z > 1000 * ZUnit THEN r.deltaz + 4 ELSE r.deltaz + 1
    IN  [r EXCEPT !.prevHeights = IF useDepthInterp THEN r.currentHeights ELSE @,
                  !.prevColors = IF useDepthInterp THEN r.currentColors ELSE @,
                  !.prevZ = IF useDepthInterp THEN r.z ELSE @,
                  !.deltaz = deltaz,
                  !.z = r.z + deltaz]

\* Render(): the dispatch on renderOpts.renderMode, the prologue of the
\* function it calls and the head of its first slice
Render ==
    /\ rp.pc = "idle"
    /\ depthBuffer # <<>>
    /\ hiddeny' = [i \in 1 .. ScreenW |-> ScreenH]
    /\ rp' = sliceHead([rpIdle EXCEPT
                           !.z = ZUnit, !.deltaz = ZUnit,
                           !.tileCacheX = zeros32(ScreenW),
                           !.tileCacheY = zeros32(ScreenW),
                           !.tileCacheMapIndex = zeros32(ScreenW),
                           !.tileCacheValid = zeros32(ScreenW)])
    /\ UNCHANGED <<camera, renderOpts, tileMap, maps, depthBuffer, buf32, columnVars,
                   subdividedTileCache, notRender>>

NextSlice ==
    /\ rp.pc = "tail"
    /\ rp' = sliceHead(sliceTail(rp))
    /\ UNCHANGED <<camera, renderOpts, tileMap, maps, hiddeny, depthBuffer, buf32,
                   columnVars, subdividedTileCache, notRender>>

\* one column of Render_Tiled
TiledColumn ==
    /\ rp.pc = "column"
    /\ renderOpts.renderMode = "tiled"
    /\ Column(getTerrainData(rp.plx, rp.ply, rp.z), TRUE)
    /\ UNCHANGED <<camera, renderOpts, tileMap, maps, subdividedTileCache, notRender>>

\* the sample of a column of the main pass of Render_Cached
cachedSample ==
    IF rp.tileCacheValid[rp.i + 1] = 0 THEN null
    ELSE IF ~hasMap(rp.tileCacheMapIndex[rp.i + 1]) THEN TypeError
    ELSE LET i == rp.i
             tileMap_ == maps[rp.tileCacheMapIndex[i + 1] + 1]
             tileStartX == rp.tileCacheX[i + 1] * (tileWidth - overlapSize)
             tileStartY == rp.tileCacheY[i + 1] * (tileHeight - overlapSize)
             localX == rp.plx - P(tileStartX)
             localY == rp.ply - P(tileStartY)
             useBilinear == renderOpts.bilinearFilter /\ rp.z < filterRange * ZUnit
         IN  sampleMap(tileMap_, localX, localY, useBilinear)

\* one column of the main pass of Render_Cached
CachedColumn ==
    /\ rp.pc = "column"
    /\ renderOpts.renderMode = "cached"
    /\ Column(cachedSample, TRUE)
    /\ UNCHANGED <<camera, renderOpts, tileMap, maps, subdividedTileCache, notRender>>

\* the sample of a column of Render_Direct
directSample ==
    LET mapoffset == (Wrap(Floor(rp.ply), map.width) * (2 ^ map.shift))
                     + Wrap(Floor(rp.plx), map.height)
    IN  Sample(RatInt(altitude(map, mapoffset) * map.heightScale), color(map, mapoffset))

\* one column of Render_Direct
DirectColumn ==
    /\ rp.pc = "column"
    /\ renderOpts.renderMode = "direct"
    /\ Column(directSample, FALSE)
    /\ UNCHANGED <<camera, renderOpts, tileMap, maps, subdividedTileCache, notRender>>

\* one column of Render_Subdivided
SubdividedColumn ==
    /\ rp.pc = "column"
    /\ renderOpts.renderMode = "subdivided"
    /\ Column(subdividedSample(rp.plx, rp.ply,
                               renderOpts.bilinearFilter /\ rp.z < filterRange * ZUnit),
              FALSE)
    /\ subdividedTileCache' = IF hiddeny[rp.i + 1] <= 0 THEN subdividedTileCache
                              ELSE cacheAfter(rp.plx, rp.ply)
    /\ UNCHANGED <<camera, renderOpts, tileMap, maps, notRender>>

(***************************************************************************)
(* The frames the rasterizer is run on.  A scene is the state Render finds: *)
(* the camera where the player stands, the render options the number keys  *)
(* have chosen, the tile map, the loaded rasters, and the depth buffer and  *)
(* framebuffer as the background and the cube, drawn before the terrain,   *)
(* have left them.                                                         *)
(***************************************************************************)
\* initializeTileSystem: the 10 x 10 grid and its border, Math.random()
\* falling as the parity of the tile
initialTiles ==
    [k \in (-6 .. 5) \X (-6 .. 5) |->
        IF k[1] = -6 \/ k[1] = 5 \/ k[2] = -6 \/ k[2] = 5 THEN 2
        ELSE IF k = <<0, 0>> THEN 0
        ELSE IF k = <<1, 0>> THEN 1
        ELSE (k[1] + k[2]) % 2]

\* OnLoadedImages: the four rasters read from the images
loadedMaps ==
    <<Raster(1024, 10, 1, 20, 2, 128, <<255, 40, 120, 200>>, <<255, 90, 60, 10>>),
      Raster(1024, 10, 1, 21, 1, 64, <<255, 30, 30, 30>>, <<255, 250, 250, 250>>),
      Raster(1024, 10, 25, 4, 3, 128, <<255, 120, 120, 130>>, <<255, 200, 200, 210>>),
      Raster(4096, 12, 10, 5, 1, 256, <<255, 10, 80, 10>>, <<255, 20, 160, 20>>)>>

\* the far plane the background leaves in the depth buffer, and the depth
\* of the cube's pixels
farDepth == 100000

cubeDepth == Rat(641, 2)

\* the cube covers rows 2 and 3 of column 0
cubePixels == {(2 * ScreenW), (3 * ScreenW)}

sceneDepth ==
    [p \in 1 .. ScreenW * ScreenH |->
        IF (p - 1) \in cubePixels THEN Fround(cubeDepth) ELSE Fround(RatInt(farDepth))]

sceneColors ==
    [p \in 1 .. ScreenW * ScreenH |->
        IF (p - 1) \in cubePixels THEN <<255, 255, 0, 0>> ELSE <<255, 135, 206, 235>>]

Options(mode, tileCulling, bilinearFilter, depthInterp, tileBlending) ==
    [tileCulling |-> tileCulling, bilinearFilter |-> bilinearFilter,
     depthInterp |-> depthInterp, tileBlending |-> tileBlending, renderMode |-> mode]

Camera(x, y, height, horizon) ==
    [cameraDefault EXCEPT !.x = x, !.y = y, !.height = height, !.horizon = horizon]

Scenes ==
    {[camera |-> Camera(432, 440, 98, -26),
      renderOpts |-> Options("tiled", TRUE, TRUE, TRUE, TRUE)],
     [camera |-> Camera(432, -5000, 253, -70),
      renderOpts |-> Options("tiled", FALSE, FALSE, TRUE, TRUE)],
     [camera |-> Camera(432, 440, 98, -70),
      renderOpts |-> Options("cached", TRUE, TRUE, TRUE, FALSE)],
     [camera |-> Camera(432, -5000, 253, -70),
      renderOpts |-> Options("cached", FALSE, FALSE, FALSE, TRUE)],
     [camera |-> Camera(432, 6296, 98, 3),
      renderOpts |-> Options("tiled", FALSE, FALSE, FALSE, TRUE)],
     [camera |-> Camera(432, 440, 98, -70),
      renderOpts |-> Options("direct", TRUE, TRUE, TRUE, TRUE)],
     [camera |-> Camera(432, 440, 98, -70),
      renderOpts |-> Options("subdivided", TRUE, TRUE, TRUE, TRUE)]}

\* a frame about to call Render
SceneInit ==
    /\ \E s \in Scenes : camera = s.camera /\ renderOpts = s.renderOpts
    /\ tileMap = initialTiles
    /\ maps = loadedMaps
    /\ hiddeny = zeros32(ScreenW)
    /\ depthBuffer = sceneDepth
    /\ buf32 = sceneColors
    /\ rp = rpIdle
    /\ terrainData = null
    /\ finalData = null
    /\ heightonscreen = null
    /\ subdividedTileCache = <<>>

RenderNext ==
    \/ Render
    \/ NextSlice
    \/ TiledColumn
    \/ CachedColumn
    \/ DirectColumn
    \/ SubdividedColumn

InitRender == WorldInit /\ KeyIdle /\ SceneInit /\ CallIdle /\ JumpIdle /\ EditIdle

SpecRender == InitRender /\ [][RenderNext]_vars

(***************************************************************************)
(* Claims about the rasterizer                                             *)
(***************************************************************************)
\* the pass is running: Render has been called and has not returned
inPass == rp.pc \in {"column", "tail"}

\* C6: in every render strategy the occlusion floor hiddeny[i] of every
\* column starts at the screen height when the pass begins, never increases
\* while the slices advance, and changes only in the column step of column i
\* whose projected height is strictly above (smaller than) the floor.
C6_FloorStep ==
    /\ rp.pc = "idle" /\ rp'.pc # "idle"
           => \A i \in 1 .. ScreenW : hiddeny'[i] = ScreenH
    /\ inPass
           => \A i \in 1 .. ScreenW :
                  /\ hiddeny'[i] <= hiddeny[i]
                  /\ hiddeny'[i] # hiddeny[i]
                         => /\ rp.pc = "column" /\ rp.i + 1 = i
                            /\ ~isNull(heightonscreen')
                            /\ RatLess(heightonscreen', RatInt(hiddeny[i]))

C6_FloorMonotone == [][C6_FloorStep]_vars

\* a column step has painted pixels and left a floor between the rows
C6_Witness ==
    /\ inPass
    /\ rp.tested
    /\ rp.written # {}
    /\ \E i \in 1 .. ScreenW : hiddeny[i] < ScreenH /\ hiddeny[i] > 0

\* the pixels a step stores into: the depth entry or the colour changes
stored(p) == depthBuffer'[p] # depthBuffer[p] \/ buf32'[p] # buf32[p]

\* C7 as stated: a pixel is written only where the slice depth z is strictly
\* smaller than the depth stored for it, the depth entry is then z, no depth
\* entry grows, and a pixel holding a nearer depth keeps depth and colour.
C7_StoresZStep ==
    \A p \in 1 .. ScreenW * ScreenH :
        /\ stored(p) \/ (inPass /\ (p - 1) \in rp'.written)
               => /\ rp.pc = "column"
                  /\ RatLess(Z(rp.z), depthBuffer[p])
                  /\ RatEq(depthBuffer'[p], Z(rp.z))
        /\ ~RatLess(depthBuffer[p], depthBuffer'[p])
        /\ ~RatLess(Z(rp.z), depthBuffer[p]) => ~stored(p)

C7_StoresZ == [][C7_StoresZStep]_vars

\* C7 amended: the same, the depth entry being z rounded to the nearest
\* float32, the element type of the depth buffer.
C7_StoresFroundStep ==
    \A p \in 1 .. ScreenW * ScreenH :
        /\ stored(p) \/ (inPass /\ (p - 1) \in rp'.written)
               => /\ rp.pc = "column"
                  /\ RatLess(Z(rp.z), depthBuffer[p])
                  /\ RatEq(depthBuffer'[p], Fround(Z(rp.z)))
        /\ ~RatLess(depthBuffer[p], depthBuffer'[p])
        /\ ~RatLess(Z(rp.z), depthBuffer[p]) => ~stored(p)

C7_DepthTested == [][C7_StoresFroundStep]_vars

\* the floor of the cube's column has been lowered past a pixel of the cube
\* by a slice behind the cube (the paint loop of that step ran over the
\* pixel), and the pixel holds the cube's colour and depth
C7_Witness ==
    /\ inPass
    /\ \E p \in cubePixels :
           /\ hiddeny[(p % ScreenW) + 1] <= p \div ScreenW
           /\ buf32[p + 1] = sceneColors[p + 1]
           /\ depthBuffer[p + 1] = sceneDepth[p + 1]
    /\ \E q \in 1 .. ScreenW * ScreenH : depthBuffer[q] # sceneDepth[q]

\* the tile the position <<x, y>> lies in is not in tileMap
tileAbsent(x, y) == getTileKey(x \div P(896), y \div P(896)) \notin DOMAIN tileMap

\* tile culling is on and the centre of that tile is more than 1000 units
\* from the camera
tileCulled(x, y) ==
    LET centerX == ((x \div P(896)) * 896) + 512
        centerY == ((y \div P(896)) * 896) + 512
    IN  /\ renderOpts.tileCulling
        /\ ((centerX - camera.x) * (centerX - camera.x))
           + ((centerY - camera.y) * (centerY - camera.y)) > 1000 * 1000

\* C8: getTerrainData returns null where the tile of the position is absent
\* from tileMap, or culling is on and the tile's centre is more than 1000
\* units from the camera; a column of Render_Tiled or Render_Cached at such a
\* position is passed over: no sample, no exception, the loop goes on to the
\* next column, and hiddeny, the framebuffer and the depth buffer are as
\* they were.
C8_SkipStep ==
    /\ rp.pc = "column"
    /\ renderOpts.renderMode \in {"tiled", "cached"}
    /\ hiddeny[rp.i + 1] > 0
    /\ tileAbsent(rp.plx, rp.ply) \/ tileCulled(rp.plx, rp.ply)
    => /\ isNull(getTerrainData(rp.plx, rp.ply, rp.z))
       /\ isNull(terrainData')
       /\ rp'.pc \in {"column", "tail"}
       /\ rp'.i = rp.i + 1
       /\ ~rp'.tested
       /\ UNCHANGED <<hiddeny, buf32, depthBuffer>>

C8_NoTileSkips == [][C8_SkipStep]_vars

\* the column before the current one had its floor above the top of the
\* screen and was passed over without a sample
skippedAt(mode) ==
    /\ inPass
    /\ renderOpts.renderMode = mode
    /\ rp.i >= 1
    /\ hiddeny[rp.i] > 0
    /\ isNull(terrainData)

\* Render_Tiled has passed over a column of a culled tile
C8_Witness ==
    /\ skippedAt("tiled")
    /\ tileCulled(rp.plx - rp.dx, rp.ply - rp.dy)
    /\ ~tileAbsent(rp.plx - rp.dx, rp.ply - rp.dy)

(***************************************************************************)
(* Calls of blendColors                                                    *)
(***************************************************************************)
\* colours as <<alpha, r, g, b>>: the alpha of an argument is whatever the
\* caller's colour has
BlendColorSet ==
    {<<255, 0, 0, 0>>, <<255, 255, 128, 7>>, <<0, 10, 200, 99>>, <<128, 200, 10, 100>>}

BlendFactors ==
    {Rat(-3, 2), Rat(-1, 3), RatInt(0), Rat(1, 3), Rat(1, 2), Rat(255, 256),
     RatInt(1), Rat(3, 2), RatInt(2)}

BlendInit ==
    /\ \E color1 \in BlendColorSet, color2 \in BlendColorSet, t \in BlendFactors :
           args = <<"blendColors", color1, color2, t>>
    /\ result = <<>>

\* the call returns
BlendColors ==
    /\ args # <<>>
    /\ args[1] = "blendColors"
    /\ result = <<>>
    /\ result' = blendColors(args[2], args[3], args[4])
    /\ UNCHANGED <<args, notCall>>

InitBlend == WorldInit /\ KeyIdle /\ RenderIdle /\ BlendInit /\ JumpIdle /\ EditIdle

SpecBlend == InitBlend /\ [][BlendColors]_vars

\* C20: blendColors(c1, c2, t) is blendColors(c1, c2, clamp(t, 0, 1)): for
\* t <= 0 the result has the channels of c1, for t >= 1 those of c2, its
\* alpha is 0xFF whatever the alphas of c1 and c2, and each of its channels
\* lies between the channel of c1 and the channel of c2.
C20_BlendClamps ==
    result # <<>> =>
        LET color1 == args[2]
            color2 == args[3]
            t == args[4]
        IN  /\ result = blendColors(color1, color2, clamp(t, RatInt(0), RatInt(1)))
            /\ result[1] = 255
            /\ \A c \in 2 .. 4 :
                   /\ ~RatLess(RatInt(0), t) => result[c] = color1[c]
                   /\ ~RatLess(t, RatInt(1)) => result[c] = color2[c]
                   /\ result[c] >= (IF color1[c] < color2[c] THEN color1[c] ELSE color2[c])
                   /\ result[c] <= (IF color1[c] < color2[c] THEN color2[c] ELSE color1[c])

\* a call with a factor above 1 and different colours has returned
C20_Witness ==
    /\ result # <<>>
    /\ RatLess(RatInt(1), args[4])
    /\ args[2][1] # 255
    /\ \A c \in 2 .. 4 : args[2][c] # args[3][c]
    /\ result = <<255, args[3][2], args[3][3], args[3][4]>>

(***************************************************************************)
(* Calls of getTerrainData on the tile grid of initializeTileSystem        *)
(***************************************************************************)
\* world coordinates on both sides of the borders of tile <<1, 0>>, whose
\* left neighbour is tile <<0, 0>>, and of tile <<1, 1>>
SampleXs == {P(500), P(896), P(896) + 1, P(896 + 64), P(896 + 127) + (PosUnit - 1),
             P(896 + 128), P(896 + 500)}

SampleYs == {-P(200), P(0), P(64), P(127), P(200), P(896), P(896 + 64), P(896 + 500)}

SampleZs == {100 * ZUnit, 700 * ZUnit}

\* the subdivided tiles around the origin that passes have sampled
SampledTiles == {t \in (-1 .. 2) \X (-1 .. 2) : isSubdivided(t[1], t[2])}

\* the cache before the first pass, after a pass that sampled the tile of
\* the origin only, and after passes that sampled every tile around it
SamplerCaches ==
    {<<>>, (<<0, 0>> :> loadedMaps[1]), [t \in SampledTiles |-> loadedMaps[1]]}

\* the render modes getRawTerrainHeight is called in
RawModes == {"tiled", "direct", "subdivided"}

SamplerInit ==
    /\ \/ /\ \E tileBlending \in BOOLEAN, bilinearFilter \in BOOLEAN :
                 renderOpts = Options("tiled", FALSE, bilinearFilter, FALSE, tileBlending)
          /\ subdividedTileCache = <<>>
          /\ \E x \in SampleXs, y \in SampleYs, z \in SampleZs :
                 args = <<"getTerrainData", x, y, z>>
       \/ /\ \E tileBlending \in BOOLEAN, mode \in RawModes :
                 renderOpts = Options(mode, FALSE, FALSE, FALSE, tileBlending)
          /\ subdividedTileCache \in SamplerCaches
          /\ \E x \in SampleXs, y \in SampleYs : args = <<"getRawTerrainHeight", x, y>>
    /\ camera = cameraDefault
    /\ tileMap = initialTiles
    /\ maps = loadedMaps
    /\ hiddeny = <<>>
    /\ depthBuffer = <<>>
    /\ buf32 = <<>>
    /\ rp = rpIdle
    /\ terrainData = null
    /\ finalData = null
    /\ heightonscreen = null
    /\ result = <<>>

\* the call returns (null is <<>>: returned says that it has)
GetTerrainData ==
    /\ args # <<>>
    /\ args[1] = "getTerrainData"
    /\ Len(args) = 4
    /\ result = <<>>
    /\ result' = <<getTerrainData(args[2], args[3], args[4])>>
    /\ args' = Append(args, "returned")
    /\ UNCHANGED notCall

\* the call returns
GetRawTerrainHeight ==
    /\ args # <<>>
    /\ args[1] = "getRawTerrainHeight"
    /\ Len(args) = 3
    /\ result = <<>>
    /\ result' = <<getRawTerrainHeight(args[2], args[3])>>
    /\ args' = Append(args, "returned")
    /\ UNCHANGED notCall

SamplerNext ==
    \/ GetTerrainData
    \/ GetRawTerrainHeight

InitSampler == WorldInit /\ KeyIdle /\ SamplerInit /\ JumpIdle /\ EditIdle

SpecSampler == InitSampler /\ [][SamplerNext]_vars

\* the height of the texel of the tile at <<tileX, tileY>> at the local
\* position <<localX, localY>>, nearest-neighbour
texelHeight(tileX, tileY, localX, localY) ==
    LET m == maps[tileMap[<<tileX, tileY>>] + 1]
        offset == (((localY \div PosUnit) % m.height) * m.width) + ((localX \div PosUnit) % m.width)
    IN  RatInt(altitude(m, offset) * m.heightScale)

\* (1 - t) * h1 + t * h2
weighted(h1, h2, t) == RatAdd(RatMul(RatSub(RatInt(1), t), h1), RatMul(t, h2))

\* C19: with tile blending on and nearest-neighbour sampling, a point in the
\* left band 0 <= localX < 128 of a tile whose left neighbour is mapped gets
\* the height (1 - t) * hLeft + t * hCur, t = localX / 128, hLeft the left
\* tile's texel at local x = 896 + localX and hCur the tile's own texel: at
\* localX = 0 this is hLeft and at localX = 64 the mean of the two; a point
\* outside the left band and in the top band 0 <= localY < 128 of a tile
\* whose top neighbour is mapped gets the same with y for x.
C19_BandBlend ==
    (/\ result # <<>>
     /\ args[1] = "getTerrainData"
     /\ renderOpts.tileBlending
     /\ ~(renderOpts.bilinearFilter /\ args[4] < 600 * ZUnit)
     /\ <<args[2] \div P(896), args[3] \div P(896)>> \in DOMAIN tileMap)
    => LET tileX == args[2] \div P(896)
           tileY == args[3] \div P(896)
           localX == args[2] - P(896 * tileX)
           localY == args[3] - P(896 * tileY)
           hCur == texelHeight(tileX, tileY, localX, localY)
           inLeft == localX < P(128) /\ <<tileX - 1, tileY>> \in DOMAIN tileMap
           inTop == localY < P(128) /\ <<tileX, tileY - 1>> \in DOMAIN tileMap
       IN  /\ inLeft =>
               LET hLeft == texelHeight(tileX - 1, tileY, P(896) + localX, localY)
               IN  /\ RatEq(result[1][1], weighted(hLeft, hCur, Rat(localX, P(128))))
                   /\ localX = 0 => RatEq(result[1][1], hLeft)
                   /\ localX = P(64) =>
                          RatEq(RatMul(RatInt(2), result[1][1]), RatAdd(hLeft, hCur))
           /\ ~inLeft /\ inTop =>
               LET hTop == texelHeight(tileX, tileY - 1, localX, P(896) + localY)
               IN  /\ RatEq(result[1][1], weighted(hTop, hCur, Rat(localY, P(128))))
                   /\ localY = 0 => RatEq(result[1][1], hTop)
                   /\ localY = P(64) =>
                          RatEq(RatMul(RatInt(2), result[1][1]), RatAdd(hTop, hCur))

\* a nearest-neighbour sample has been taken in the middle of the left band
\* of tile <<1, 0>>, where the two tiles' heights differ
C19_Witness ==
    /\ result # <<>>
    /\ args[1] = "getTerrainData"
    /\ renderOpts.tileBlending
    /\ ~renderOpts.bilinearFilter
    /\ args[2] = P(896 + 64)
    /\ args[3] = P(200)
    /\ ~RatEq(texelHeight(0, 0, P(896 + 64), P(200)), texelHeight(1, 0, P(64), P(200)))
    /\ ~isNull(result[1])

(***************************************************************************)
(* Distance LOD (rendering/lod/distanceLOD.js).  A colour <<alpha, c16, c8, *)
(* c0>> lists the bytes at bits 24, 16, 8 and 0: the file reads blue at    *)
(* bit 16 and red at bit 0.                                                 *)
(***************************************************************************)
\* distanceLOD.enabled and distanceLOD.threshold, 0.9
distanceLOD == [enabled |-> TRUE, threshold |-> Rat(9, 10)]

_lodFlatColor(height) ==
    IF RatLess(height, RatInt(100)) THEN <<255, 54, 102, 88>>
    ELSE IF RatLess(height, RatInt(200)) THEN <<255, 57, 86, 98>>
    ELSE IF RatLess(height, RatInt(350)) THEN <<255, 90, 110, 118>>
    ELSE <<255, 192, 183, 178>>

\* (full + (flat - full) * t + 0.5) | 0
lodChannel(full, flat, t) ==
    ToInt32(RatAdd(lerp(RatInt(full), RatInt(flat), t), Rat(1, 2)))

\* lodApply from its third line on, z beyond lodStart
lodBlend(color_, flat, t) ==
    [c \in 1 .. 4 |-> IF c = 1 THEN 255 ELSE lodChannel(color_[c], flat[c], t)]

lodApply(color_, height, z) ==
    LET lodStart == RatMul(RatInt(camera.distance), distanceLOD.threshold)
        lodRange == RatSub(RatInt(camera.distance), lodStart)
        t == RatMul(RatSub(Z(z), lodStart), Rat(1, RatFloor(lodRange)))
    IN  IF ~distanceLOD.enabled THEN color_
        ELSE IF ~RatLess(lodStart, Z(z)) THEN color_
        ELSE lodBlend(color_, _lodFlatColor(height),
                      RatMul(RatMul(t, t), RatSub(RatInt(3), RatMul(RatInt(2), t))))

\* C16: with distanceLOD enabled, in every render strategy the colour
\* painted for a slice at depth z is lodApply(sampled colour, sampled
\* height, z).
C16_PaintsLodStep ==
    rp.pc = "column" =>
        \A p \in 1 .. ScreenW * ScreenH :
            (p - 1) \in rp'.written
                => buf32'[p] = lodApply(finalData'[2], finalData'[1], rp.z)

C16_PaintsLod == [][C16_PaintsLodStep]_vars

\* the locals of a slice that Render_Tiled and Render_Cached both have
sliceLocals(r) ==
    <<r.pc, r.z, r.deltaz, r.i, r.plx, r.ply, r.dx, r.dy, r.prevHeights, r.prevColors,
      r.prevZ, r.currentHeights, r.currentColors>>

\* the locals of Render_Cached without what its pre-pass has written
uncached(r) ==
    [r EXCEPT !.tileCacheX = zeros32(ScreenW), !.tileCacheY = zeros32(ScreenW),
              !.tileCacheMapIndex = zeros32(ScreenW), !.tileCacheValid = zeros32(ScreenW)]

\* a step of Render_Cached, tile blending off
cachedStep == renderOpts.renderMode = "cached" /\ ~renderOpts.tileBlending

\* C15: with tile blending off Render_Cached ends with the framebuffer, depth
\* buffer and hiddeny Render_Tiled ends with from the same inputs.  Both
\* start a pass alike, and every step of Render_Cached is the step of
\* Render_Tiled from the same state: a column step is the column body of
\* Render_Tiled on getTerrainData's sample at the column's position, and a
\* slice step changes only the locals, those the two functions share not
\* depending on the pre-pass.
C15_SameStep ==
    /\ cachedStep /\ rp.pc = "column"
           => Column(getTerrainData(rp.plx, rp.ply, rp.z), TRUE)
    /\ cachedStep /\ rp.pc = "tail"
           => /\ sliceLocals(rp') = sliceLocals(sliceHead(sliceTail(uncached(rp))))
              /\ UNCHANGED <<hiddeny, depthBuffer, buf32>>
    /\ cachedStep /\ rp.pc = "idle"
           => /\ hiddeny' = [i \in 1 .. ScreenW |-> ScreenH]
              /\ sliceLocals(rp') = sliceLocals(sliceHead([rpIdle EXCEPT !.z = ZUnit,
                                                                         !.deltaz = ZUnit]))
              /\ UNCHANGED <<depthBuffer, buf32>>

C15_CachedAsTiled == [][C15_SameStep]_vars

\* Render_Cached, tile blending off, has painted a column inside the band a
\* tile shares with its upper neighbour, where tile blending would blend
C15_Witness ==
    /\ cachedStep
    /\ inPass
    /\ rp.i >= 1
    /\ rp.written # {}
    /\ (rp.ply - rp.dy) % P(896) < P(128)
    /\ getTileKey((rp.plx - rp.dx) \div P(896), ((rp.ply - rp.dy) \div P(896)) - 1)
           \in DOMAIN tileMap

(***************************************************************************)
(* Claims about the mountain ridges of the world map                       *)
(***************************************************************************)
\* the MOUNTAIN cells of a grid, as <<x, y>>
mountainSet(grid) ==
    {c \in (0 .. 15) \X (0 .. 15) : grid # <<>> /\ grid[(c[2] * 16) + c[1] + 1] = 4}

\* inside the rectangle 3..12 x 3..12 and not a spawn cell
interiorCell(c) ==
    /\ c[1] >= 3 /\ c[1] <= 12 /\ c[2] >= 3 /\ c[2] <= 12
    /\ c # <<8, 8>> /\ c # <<9, 8>>

C14_Interior ==
    /\ \A c \in mountainSet(gen.grid) : interiorCell(c)
    /\ \A c \in mountainSet(worldMapData) : interiorCell(c)

C14_RepairStep ==
    gen.pc \in {"repair", "transition"} => mountainSet(gen'.grid) \subseteq mountainSet(gen.grid)

\* C14: every MOUNTAIN cell of the grid generateWorldMap builds and returns
\* lies in 3 <= x <= 12, 3 <= y <= 12 and is neither (8,8) nor (9,8), at
\* every point of the generation; the repair passes and the transition pass
\* create no MOUNTAIN cell.
C14_MountainsInterior == [](C14_Interior) /\ [][C14_RepairStep]_vars

\* a finished world map with a ridge that touches the edge of the rectangle
C14_Witness ==
    /\ gen.pc = "done"
    /\ Cardinality(mountainSet(worldMapData)) >= 6
    /\ \E c \in mountainSet(worldMapData) : c[1] \in {3, 12} \/ c[2] \in {3, 12}

(***************************************************************************)
(* The charged jump (UpdateCamera and the key handlers)                    *)
(*                                                                         *)
(* Times are whole milliseconds, as Date.now() gives them.  A velocity is  *)
(* held in 1/VelUnit and a height in 1/HeightUnit, which makes the         *)
(* products with deltaTime = (current - time) * 0.03 whole numbers.  The   *)
(* player does not walk: getGroundHeight(camera.x, camera.y) is the same   *)
(* in every frame of one behaviour.                                        *)
(***************************************************************************)
VelUnit == 1000

HeightUnit == 100000

jumpMinStrength == 3

jumpMaxStrength == 12

jumpMaxChargeTime == 1000

flySpeed == 3

\* camera.height at start
cameraHeight == 78

\* current - time of a frame; 0 is the frame a key handler draws itself
FrameTimes == {0, 300, 700}

\* getRawTerrainHeight where the player stands
TerrainHeights == {40, 90}

\* fly mode carries the player no higher than this and no lower than 0
MaxHeight == 130

\* getGroundHeight: the terrain plus playerHeightOffset = 6.5
getGroundHeight(terrainHeight) == terrainHeight * HeightUnit + 65 * (HeightUnit \div 10)

Min(a, b) == IF a < b THEN a ELSE b

\* jumpStrength of a charge, in 1/VelUnit
impulse(chargeTime) ==
    jumpMinStrength * VelUnit
        + ((jumpMaxStrength - jumpMinStrength) * chargeTime * VelUnit) \div jumpMaxChargeTime

\* mutant: the charge is not capped
charged_uncapped(chargeTime, elapsed) == chargeTime + elapsed

\* jumpChargeTime after a frame spent charging
charged(chargeTime, elapsed) == Min(chargeTime + elapsed, jumpMaxChargeTime)

JumpInit ==
    /\ player = [flyMode |-> FALSE, isChargingJump |-> FALSE, jumpChargeTime |-> 0]
    /\ input = [jump |-> FALSE, flyUp |-> FALSE, flyDown |-> FALSE]
    /\ \E terrainHeight \in TerrainHeights :
           cameraY = [height |-> cameraHeight * HeightUnit, velocityY |-> 0,
                      ground |-> getGroundHeight(terrainHeight)]
    /\ frame = [tick |-> FALSE, elapsed |-> 0, onGround |-> FALSE, jumpHeld |-> FALSE,
                jumpStrength |-> <<>>]

\* DetectKeysDown and DetectKeysUp for Space, Q and E
DetectKey ==
    /\ \E k \in {"jump", "flyUp", "flyDown"}, down \in BOOLEAN :
           /\ input[k] # down
           /\ input' = [input EXCEPT ![k] = down]
    /\ UNCHANGED <<player, cameraY, frame, notJump>>

\* DetectKeysDown for F
ToggleFly ==
    /\ player' = [player EXCEPT !.flyMode = ~player.flyMode]
    /\ UNCHANGED <<input, cameraY, frame, notJump>>

\* UpdateCamera with player.flyMode set
flyFrame(elapsed) ==
    LET flyStep == flySpeed * 3 * elapsed * 2 * (HeightUnit \div 100)
        up == IF input.flyUp THEN cameraY.height + flyStep ELSE cameraY.height
        down == IF input.flyDown THEN up - flyStep ELSE up
    IN  /\ down <= MaxHeight * HeightUnit
        /\ down >= 0
        /\ cameraY' = [cameraY EXCEPT !.height = down, !.velocityY = 0]
        /\ frame' = [tick |-> ~frame.tick, elapsed |-> elapsed, onGround |-> FALSE,
                     jumpHeld |-> FALSE, jumpStrength |-> <<>>]
        /\ UNCHANGED player

\* UpdateCamera in normal mode
walkFrame(elapsed) ==
    LET fallen == cameraY.velocityY - ((VelUnit \div 2) * 3 * elapsed) \div 100
        height == cameraY.height + fallen * 3 * elapsed * (HeightUnit \div (100 * VelUnit))
        clamped == height < cameraY.ground
        groundedHeight == IF clamped THEN cameraY.ground ELSE height
        groundedVelocity == IF clamped THEN 0 ELSE fallen
        jumpHeld == input.jump
        onGround == /\ groundedHeight <= cameraY.ground + 2 * HeightUnit
                    /\ 2 * groundedVelocity <= VelUnit
        starts == jumpHeld /\ onGround /\ ~player.isChargingJump
        charging == jumpHeld /\ (starts \/ player.isChargingJump)
        chargeTime == IF starts THEN 0 ELSE player.jumpChargeTime
        jumps == ~jumpHeld /\ player.isChargingJump
    IN  /\ player' =
               IF jumpHeld
               THEN [player EXCEPT
                        !.isChargingJump = charging,
                        !.jumpChargeTime =
                            IF charging THEN charged(chargeTime, elapsed) ELSE @]
               ELSE [player EXCEPT !.isChargingJump = FALSE, !.jumpChargeTime = 0]
        /\ cameraY' = [cameraY EXCEPT
                          !.height = groundedHeight,
                          !.velocityY = IF jumps THEN impulse(player.jumpChargeTime)
                                        ELSE groundedVelocity]
        /\ frame' = [tick |-> ~frame.tick, elapsed |-> elapsed, onGround |-> onGround,
                     jumpHeld |-> jumpHeld,
                     jumpStrength |-> IF jumps THEN <<impulse(player.jumpChargeTime)>>
                                      ELSE <<>>]

UpdateCamera ==
    /\ \E elapsed \in FrameTimes :
           IF player.flyMode THEN flyFrame(elapsed) ELSE walkFrame(elapsed)
    /\ UNCHANGED <<input, notJump>>

JumpNext == DetectKey \/ ToggleFly \/ UpdateCamera

InitJump == WorldInit /\ KeyIdle /\ RenderIdle /\ CallIdle /\ JumpInit /\ EditIdle

SpecJump == InitJump /\ [][JumpNext]_vars

\* the frame just run was a normal-mode frame
walked == frame'.tick # frame.tick /\ ~player.flyMode

\* the frame just run applied a jump impulse
jumped == frame'.tick # frame.tick /\ frame'.jumpStrength # <<>>

C17_JumpStep ==
    /\ player'.jumpChargeTime <= jumpMaxChargeTime
    /\ player'.jumpChargeTime >= 0
       \* the impulse comes on a normal frame with the key up after a charge
    /\ jumped =>
           /\ ~player.flyMode /\ ~input.jump /\ player.isChargingJump
           /\ frame'.jumpStrength[1] * jumpMaxChargeTime =
                  VelUnit * (jumpMinStrength * jumpMaxChargeTime
                      + (jumpMaxStrength - jumpMinStrength) * player.jumpChargeTime)
           /\ frame'.jumpStrength[1] >= jumpMinStrength * VelUnit
           /\ frame'.jumpStrength[1] <= jumpMaxStrength * VelUnit
           /\ cameraY'.velocityY = frame'.jumpStrength[1]
       \* nothing else throws the player upwards
    /\ (cameraY'.velocityY > 0 /\ cameraY'.velocityY > cameraY.velocityY) => jumped
       \* a charge begins on the ground with the key down
    /\ (player'.isChargingJump /\ ~player.isChargingJump) =>
           /\ walked /\ input.jump /\ frame'.onGround
           /\ player'.jumpChargeTime = Min(frame'.elapsed, jumpMaxChargeTime)
       \* holding longer never charges less, nor gives a weaker impulse
    /\ (walked /\ player.isChargingJump /\ player'.isChargingJump) =>
           /\ input.jump
           /\ player'.jumpChargeTime >= player.jumpChargeTime
           /\ player'.jumpChargeTime =
                  Min(player.jumpChargeTime + frame'.elapsed, jumpMaxChargeTime)
           /\ impulse(player'.jumpChargeTime) >= impulse(player.jumpChargeTime)
       \* a normal frame with the key up leaves no charge
    /\ (walked /\ ~input.jump) =>
           /\ ~player'.isChargingJump
           /\ player'.jumpChargeTime = 0

\* C17: in normal mode a jump impulse is applied only on a frame with the
\* jump key up that follows a charge, and a charge begins only on a frame
\* with the key down and the player on the ground; jumpChargeTime stays
\* within 0..jumpMaxChargeTime; the impulse is jumpMinStrength +
\* (jumpMaxStrength - jumpMinStrength) * jumpChargeTime / jumpMaxChargeTime,
\* which does not decrease as the key is held longer and lies between
\* jumpMinStrength and jumpMaxStrength; after a normal frame with the key up
\* isChargingJump is false and jumpChargeTime is 0
C17_ChargedJump == [][C17_JumpStep]_vars

\* a charge held past jumpMaxChargeTime was released and threw the player
\* up with jumpMaxStrength, and the player is now in the air
C17_Witness ==
    /\ frame.jumpStrength = <<jumpMaxStrength * VelUnit>>
    /\ frame.elapsed = 700
    /\ ~player.isChargingJump
    /\ player.jumpChargeTime = 0
    /\ cameraY.velocityY = jumpMaxStrength * VelUnit

(***************************************************************************)
(* The base biome tiles (genBeachTile, genPlainsTile, genHillsTile,        *)
(* genMountainTile)                                                        *)
(*                                                                         *)
(* One pixel of a tile is generated per call.  What the noise functions    *)
(* contribute is the pixel's baseAlt, drawn here from whole values over    *)
(* the range the generator's formula gives it; the edge fade, the          *)
(* rounding and the clamp are computed as the code computes them.  The     *)
(* fade is held as a whole numerator over BIOME_BLEND_WIDTH^3.             *)
(***************************************************************************)
BIOME_TRANSITION_ALT == 72

BIOME_BLEND_WIDTH == 170

BIOME_HEIGHT_SCALE == 1

\* mapObj.width and mapObj.height of map, map2, map3 and biomeMapMountain
mapWidth == 1024

\* the mountain generator's local edgeAlt
edgeAlt == 85

Max(a, b) == IF a > b THEN a ELSE b

fadeDen == BIOME_BLEND_WIDTH * BIOME_BLEND_WIDTH * BIOME_BLEND_WIDTH

\* mutant: the fade never reaches 0
biomeEdgeFade_floor(x, y, w, h) == fadeDen \div 2

\* biomeEdgeFade, times fadeDen
biomeEdgeFade(x, y, w, h) ==
    LET ex == Min(x, w - 1 - x)
        ey == Min(y, h - 1 - y)
        t == Min(BIOME_BLEND_WIDTH, Min(ex, ey))
    IN  t * t * (3 * BIOME_BLEND_WIDTH - 2 * t)

\* Math.round(baseAlt * fade + edge * (1 - fade))
fadedAltitude(baseAlt, edge, fade) ==
    LET n == baseAlt * fade + edge * (fadeDen - fade)
    IN  (n \div fadeDen) + (IF 2 * (n % fadeDen) >= fadeDen THEN 1 ELSE 0)

\* the altitude genBeachTile stores at (x, y)
genBeachTile(x, y, baseAlt) ==
    Max(18, Min(72, fadedAltitude(baseAlt, BIOME_TRANSITION_ALT,
                                  biomeEdgeFade(x, y, mapWidth, mapWidth))))

genPlainsTile(x, y, baseAlt) ==
    Max(50, Min(100, fadedAltitude(baseAlt, BIOME_TRANSITION_ALT,
                                   biomeEdgeFade(x, y, mapWidth, mapWidth))))

genHillsTile(x, y, baseAlt) ==
    Max(65, Min(158, fadedAltitude(baseAlt, BIOME_TRANSITION_ALT,
                                   biomeEdgeFade(x, y, mapWidth, mapWidth))))

genMountainTile(x, y, baseAlt) ==
    Max(80, Min(255, fadedAltitude(baseAlt, edgeAlt,
                                   biomeEdgeFade(x, y, mapWidth, mapWidth))))

\* the range of baseAlt in each generator: 20..63, 52..97, 68..156, 88..255
BaseAlts(generator) ==
    CASE generator = "genBeachTile" -> {20, 63}
      [] generator = "genPlainsTile" -> {52, 97}
      [] generator = "genHillsTile" -> {68, 156}
      [] generator = "genMountainTile" -> {88, 255}

TileGenerators == {"genBeachTile", "genPlainsTile", "genHillsTile", "genMountainTile"}

\* pixel coordinates: the borders, their neighbours, the end of the fade
\* and the interior
PixelCoords == {0, 1, 85, 170, 512, 938, 1022, 1023}

TileInit ==
    /\ \E g \in TileGenerators, x \in PixelCoords, y \in PixelCoords :
           \E baseAlt \in BaseAlts(g) : args = <<g, x, y, baseAlt>>
    /\ result = <<>>

\* the pixel is generated: result is <<altitude, heightScale>>
GenTilePixel ==
    /\ args # <<>>
    /\ args[1] \in TileGenerators
    /\ result = <<>>
    /\ result' =
           <<CASE args[1] = "genBeachTile" -> genBeachTile(args[2], args[3], args[4])
               [] args[1] = "genPlainsTile" -> genPlainsTile(args[2], args[3], args[4])
               [] args[1] = "genHillsTile" -> genHillsTile(args[2], args[3], args[4])
               [] args[1] = "genMountainTile" -> genMountainTile(args[2], args[3], args[4]),
             BIOME_HEIGHT_SCALE>>
    /\ UNCHANGED <<args, notCall>>

InitTile == WorldInit /\ KeyIdle /\ RenderIdle /\ TileInit /\ JumpIdle /\ EditIdle

SpecTile == InitTile /\ [][GenTilePixel]_vars

\* the pixel of the call lies on the tile's border
borderPixel ==
    \/ args[2] = 0 \/ args[2] = mapWidth - 1
    \/ args[3] = 0 \/ args[3] = mapWidth - 1

\* C13: at every border pixel of the four base biome tiles the stored
\* altitude times heightScale is BIOME_TRANSITION_ALT = 72, whatever the
\* noise gives
C13_BordersAt72 ==
    (result # <<>> /\ borderPixel) => result[1] * result[2] = BIOME_TRANSITION_ALT

\* what the code does: the beach, plains and hills tiles have 72 on their
\* border and the mountain tile has edgeAlt = 85
C13_BordersByBiome ==
    (result # <<>> /\ borderPixel) =>
        result[1] * result[2] =
            IF args[1] = "genMountainTile" THEN 85 ELSE BIOME_TRANSITION_ALT

\* a border pixel of the mountain tile next to one of the hills tile
C13_Witness ==
    /\ result # <<>>
    /\ args[1] = "genMountainTile"
    /\ args[2] = mapWidth - 1
    /\ args[3] = 512
    /\ result[1] = 85

(***************************************************************************)
(* The tile registry (generateTerrain's tile passes in biomeGen.js)        *)
(*                                                                         *)
(* A raster is described by the object it is (id), the generator that      *)
(* last filled its altitude and color arrays, the seed and key given to    *)
(* that generator, and whether flattenTerrainUnderCube has written into    *)
(* it since: the contents of the arrays are a function of these.           *)
(***************************************************************************)
Tile(id, generator, seed, k) ==
    [id |-> id, gen |-> generator, seed |-> seed, key |-> k, flat |-> FALSE]

\* map, map2, map3 and map4 as OnLoadedImages fills them; biomeMapMountain
\* is object 4
imageMaps ==
    <<Tile(0, "image", <<0, 0>>, <<>>), Tile(1, "image", <<0, 0>>, <<>>),
      Tile(2, "image", <<0, 0>>, <<>>), Tile(3, "image", <<0, 0>>, <<>>)>>

staticObjects == 5

Families ==
    {"mountainRidge", "transition", "wideRidge", "foothill", "hillsCap", "steepFoothill"}

\* the order of rotateTile's groups
groups == <<"mountainRidge", "transition", "wideRidge", "foothill", "hillsCap", "steepFoothill">>

noIndex == [f \in Families |-> <<>>]

\* the letters of the cardinal neighbours of (gx, gy) holding biome, in the
\* order N, S, E, W
neighbourLetters(grid, gx, gy, biome) ==
    (IF gy > 0 /\ grid[Idx(gx, gy - 1)] = biome THEN <<"N">> ELSE <<>>)
    \o (IF gy < WORLD_MAP_SIZE - 1 /\ grid[Idx(gx, gy + 1)] = biome THEN <<"S">> ELSE <<>>)
    \o (IF gx < WORLD_MAP_SIZE - 1 /\ grid[Idx(gx + 1, gy)] = biome THEN <<"E">> ELSE <<>>)
    \o (IF gx > 0 /\ grid[Idx(gx - 1, gy)] = biome THEN <<"W">> ELSE <<>>)

getMountainRidgeKey(grid, gx, gy) ==
    LET k == neighbourLetters(grid, gx, gy, BIOME_MOUNTAIN)
    IN  IF k = <<>> THEN ISO ELSE k

getTransitionKey(grid, gx, gy) ==
    LET k == neighbourLetters(grid, gx, gy, BIOME_PLAINS)
    IN  IF k = <<>> THEN <<"C">> ELSE k

\* the keys of keyToMap in insertion order, the cells of scanned being
\* visited row by row: a key stands where its first cell puts it
insertionOrder(scanned, keyOf(_)) ==
    LET keyed == {<<c, keyOf(c)>> : c \in scanned}
        firsts == {p \in keyed : \A q \in keyed : q[2] = p[2] => p[1] <= q[1]}
    IN  [i \in 1 .. Cardinality(firsts) |->
            (CHOOSE p \in firsts : Cardinality({q \in firsts : q[1] < p[1]}) = i - 1)[2]]
        \o <<>>

\* the keys generateMountainRidgeTiles collects from cells 3..12
scanRidgeKeys(grid) ==
    LET ridgeKey(c) == getMountainRidgeKey(grid, CellX(c), CellY(c))
    IN  insertionOrder({c \in Cells : /\ CellX(c) >= 3 /\ CellX(c) <= 12
                                       /\ CellY(c) >= 3 /\ CellY(c) <= 12
                                       /\ grid[c] = BIOME_MOUNTAIN},
                       ridgeKey)

\* the keys generateTransitionTiles collects from the whole grid
scanTransitionKeys(grid) ==
    LET transitionKey(c) == getTransitionKey(grid, CellX(c), CellY(c))
    IN  insertionOrder({c \in Cells : grid[c] = BIOME_TRANSITION}, transitionKey)

\* k.charCodeAt(0) || 0
firstCode(k) == IF k = <<>> THEN 0 ELSE charCodeAt(k[1])

hcapXOR ==
    (HCAP("N") :> <<41394, 50132>>) @@ (HCAP("S") :> <<58870, 42936>>)
    @@ (HCAP("E") :> <<51664, 57842>>) @@ (HCAP("W") :> <<4900, 13638>>)

capXOR ==
    (CAP("N") :> <<6699, 15437>>) @@ (CAP("S") :> <<24175, 31371>>)
    @@ (CAP("E") :> <<39949, 7727>>) @@ (CAP("W") :> <<16202, 23404>>)

sfXOR ==
    (SF("N") :> <<61858, 46020>>) @@ (SF("S") :> <<54758, 63400>>)
    @@ (SF("E") :> <<47552, 53730>>) @@ (SF("W") :> <<29572, 38150>>)

\* the seed a family's generator is given for key k in a world of seed
\* baseSeed: the formula of the batch pass, which rotateTile's groups repeat
tileSeed(family, k, baseSeed) ==
    CASE family = "mountainRidge" ->
             Xor32(baseSeed, U32(Len(k) * 57005 + firstCode(k) * 48879))
      [] family = "transition" ->
             Xor32(baseSeed, U32(Len(k) * 4919 + firstCode(k) * 61453))
      [] family = "wideRidge" ->
             IF k \in DOMAIN capXOR THEN Xor32(baseSeed, capXOR[k])
             ELSE IF k = <<"N", "S">> THEN Xor32(baseSeed, <<43794, 52532>>)
             ELSE Xor32(baseSeed, <<61270, 43896>>)
      [] family = "foothill" ->
             Xor32(baseSeed, U32(Len(k) * 32570 + firstCode(k) * 51633))
      [] family = "hillsCap" ->
             IF k \in DOMAIN hcapXOR THEN Xor32(baseSeed, hcapXOR[k])
             ELSE Xor32(baseSeed, <<45506, 54244>>)
      [] family = "steepFoothill" ->
             IF k \in DOMAIN sfXOR THEN Xor32(baseSeed, sfXOR[k])
             ELSE Xor32(baseSeed, <<42422, 51160>>)

\* the generator a family uses for key k
tileGen(family, k) ==
    CASE family = "mountainRidge" -> "genDirectionalMountainTile"
      [] family = "transition" -> "genTransitionTile"
      [] family = "wideRidge" ->
             IF k \in DOMAIN capXOR THEN "genRidgeEndCapTile" ELSE "genStraightRidgeTile"
      [] family = "foothill" -> "genFoothillTile"
      [] family = "hillsCap" -> "genHillsEndCapTile"
      [] family = "steepFoothill" -> "genSteepFoothillTile"

\* a registry under construction: maps[], the index objects and the number
\* of objects allocated
Reg(m, index, h) == [maps |-> m, index |-> index, heap |-> h]

\* maps[idx] = raster (idx counted from 0, at most maps.length)
store(m, idx, raster) ==
    IF idx < Len(m) THEN [m EXCEPT ![idx + 1] = raster] ELSE Append(m, raster)

\* index[k] = maps.length; maps.push(new raster) for every key of keys
RECURSIVE pushTiles(_, _, _, _)
pushTiles(reg, family, keys, baseSeed) ==
    IF keys = <<>> THEN reg
    ELSE LET k == Head(keys)
             raster == Tile(reg.heap, tileGen(family, k), tileSeed(family, k, baseSeed), k)
         IN  pushTiles(Reg(Append(reg.maps, raster),
                           [reg.index EXCEPT ![family] = (k :> Len(reg.maps)) @@ @],
                           reg.heap + 1),
                       family, Tail(keys), baseSeed)

\* maps[nextIdx] = raster of key k; index[k] = nextIdx, for every key of keys
RECURSIVE placeRidgeTiles(_, _, _, _)
placeRidgeTiles(reg, keys, nextIdx, baseSeed) ==
    IF keys = <<>> THEN reg
    ELSE LET k == Head(keys)
             raster == Tile(reg.heap, tileGen("mountainRidge", k),
                            tileSeed("mountainRidge", k, baseSeed), k)
         IN  placeRidgeTiles(Reg(store(reg.maps, nextIdx, raster),
                                 [reg.index EXCEPT !.mountainRidge = (k :> nextIdx) @@ @],
                                 reg.heap + 1),
                             Tail(keys), nextIdx + 1, baseSeed)

\* map, map2 and map3 are filled anew in place, biomeMapMountain becomes
\* maps[3], and the four hills caps are pushed
generateBiomeTiles(reg, baseSeed) ==
    LET base == [reg.maps EXCEPT
                    ![1] = [@ EXCEPT !.gen = "genBeachTile", !.key = <<>>, !.flat = FALSE,
                                     !.seed = Xor32(baseSeed, <<4386, 13124>>)],
                    ![2] = [@ EXCEPT !.gen = "genPlainsTile", !.key = <<>>, !.flat = FALSE,
                                     !.seed = Xor32(baseSeed, <<21862, 30600>>)],
                    ![3] = [@ EXCEPT !.gen = "genHillsTile", !.key = <<>>, !.flat = FALSE,
                                     !.seed = Xor32(baseSeed, <<39338, 48076>>)],
                    ![4] = Tile(4, "genMountainTile",
                                Xor32(baseSeed, <<56814, 65297>>), <<>>)]
    IN  pushTiles(Reg(base, [reg.index EXCEPT !.hillsCap = <<>>], reg.heap),
                  "hillsCap", <<HCAP("N"), HCAP("S"), HCAP("E"), HCAP("W")>>, baseSeed)

\* the ridge tiles go to maps[4] onwards, then PEAK and PEAK1
generateMountainRidgeTiles(reg, grid, baseSeed) ==
    LET keys == scanRidgeKeys(grid)
        placed == placeRidgeTiles(Reg(reg.maps, [reg.index EXCEPT !.mountainRidge = <<>>],
                                      reg.heap),
                                  keys, 4, baseSeed)
        nextIdx == 4 + Len(keys)
        peakMap == Tile(placed.heap, "genPeakMountainTile",
                        Xor32(baseSeed, <<51966, 47806>>), PEAK)
        peak1Map == Tile(placed.heap + 1, "genSinglePeakMountainTile",
                         Xor32(baseSeed, <<57005, 61453>>), PEAK1)
    IN  Reg(store(store(placed.maps, nextIdx, peakMap), nextIdx + 1, peak1Map),
            [placed.index EXCEPT
                !.mountainRidge = (PEAK :> nextIdx) @@ (PEAK1 :> nextIdx + 1) @@ @],
            placed.heap + 2)

generateTransitionTiles(reg, grid, baseSeed) ==
    pushTiles(Reg(reg.maps, [reg.index EXCEPT !.transition = <<>>], reg.heap),
              "transition", scanTransitionKeys(grid), baseSeed)

\* no cell of the grid is a RIDGE cell: only the four end caps are made
generateStraightRidgeTiles(reg, grid, baseSeed) ==
    pushTiles(Reg(reg.maps, [reg.index EXCEPT !.wideRidge = <<>>], reg.heap),
              "wideRidge", <<CAP("N"), CAP("S"), CAP("E"), CAP("W")>>, baseSeed)

\* no cell of the grid is a FOOTHILL cell: only the four steep tiles are made
generateFoothillTiles(reg, grid, baseSeed) ==
    pushTiles(Reg(reg.maps, [reg.index EXCEPT !.foothill = <<>>, !.steepFoothill = <<>>],
                  reg.heap),
              "steepFoothill", <<SF("N"), SF("S"), SF("E"), SF("W")>>, baseSeed)

\* generateTerrain after generateWorldMap has returned grid
generateTiles(reg, grid, baseSeed) ==
    generateFoothillTiles(
        generateStraightRidgeTiles(
            generateTransitionTiles(
                generateMountainRidgeTiles(generateBiomeTiles(reg, baseSeed), grid, baseSeed),
                grid, baseSeed),
            grid, baseSeed),
        grid, baseSeed)

(***************************************************************************)
(* Saving and loading (worldSave.js), the seed menu and the tile editor    *)
(***************************************************************************)
SAVE_SLOTS == 3

Slots == 0 .. SAVE_SLOTS - 1

\* the slots whose buttons are clicked
UsedSlots == {0}

\* the seeds typed into the seed menu
EditSeedStrs == {<<"7">>, <<"b">>}

\* generateWorldMap for the seeds of EditSeedStrs
worldMaps ==
    [seed \in {hashSeedStr(str, <<0, 0>>) : str \in EditSeedStrs} |-> generateWorldMap(seed)]

\* the tiles getTargetedTile may return
TargetTiles == {<<1, 0>>}

\* the calls of generateTerrain and loadFromData, the edits, the saves and
\* the page loads that are followed; the page is loaded again after a save
\* that was written only
MaxWorlds == 2

MaxEdits == 2

MaxSaves == 1

MaxPages == 2

digitChars == <<"0", "1", "2", "3", "4", "5", "6", "7", "8", "9">>

\* the decimal digits of the 32-bit number <<hi, lo>>, before acc
RECURSIVE decimal(_, _, _)
decimal(hi, lo, acc) ==
    IF hi = 0 /\ lo = 0 THEN (IF acc = <<>> THEN <<"0">> ELSE acc)
    ELSE LET t == (hi % 10) * W16 + lo
         IN  decimal(hi \div 10, t \div 10, <<digitChars[(t % 10) + 1]>> \o acc)

\* String(n) of an unsigned 32-bit number
String(n) == decimal(n[1], n[2], <<>>)

\* JSON.parse(JSON.stringify(tileMap)): an object of whole numbers
jsonCopy(object) == [k \in DOMAIN object |-> object[k]]

\* new Uint8Array(array)
Uint8Array(array) == [i \in 1 .. Len(array) |-> array[i] % 256]

\* the object saveToSlot and exportWorld write
SaveData(seed, tiles, world) == [seed |-> seed, tileMap |-> tiles, worldMapData |-> world]

\* files the import dialog may be given that loadFromData rejects, each
\* <<data>> or <<>> for null: null, no seed, an empty seed, no tileMap
BadFiles ==
    {<<>>,
     <<[tileMap |-> (<<0, 0>> :> 1), worldMapData |-> <<1, 2>>]>>,
     <<[seed |-> <<>>, tileMap |-> (<<0, 0>> :> 1)]>>,
     <<[seed |-> <<"1", "2">>, worldMapData |-> <<1, 2>>]>>}

\* !data || !data.seed || !data.tileMap
rejected(file) ==
    IF file = <<>> THEN TRUE
    ELSE IF "seed" \notin DOMAIN file[1] THEN TRUE
    ELSE IF file[1].seed = <<>> THEN TRUE
    ELSE "tileMap" \notin DOMAIN file[1]

\* what a raster holds, whichever object it is
contents(raster) == [gen |-> raster.gen, seed |-> raster.seed, key |-> raster.key,
                     flat |-> raster.flat]

\* the rasters the indices of tiles refer to; <<>> for an index outside maps[]
referred(tiles, m) ==
    [k \in DOMAIN tiles |->
        IF tiles[k] + 1 \in DOMAIN m THEN <<contents(m[tiles[k] + 1])>> ELSE <<>>]

\* the bookkeeping of a run: what has been called, what each slot held when
\* it was written, the <<family, key>> pairs rotateTile has synthesized in
\* the present world, and the grids of worldMaps
sessionStart ==
    [worlds |-> 0, edits |-> 0, saves |-> 0, pages |-> 1, menuUsed |-> FALSE,
     snapshot |-> [i \in Slots |-> <<>>], synthesized |-> <<>>,
     worldMaps |-> worldMaps]

tileEditorClosed == [open |-> FALSE, currentMapIdx |-> 1]

\* the page as its scripts leave it, with the images loaded
EditInit ==
    /\ WorldInit
    /\ camera = cameraDefault
    /\ renderOpts = renderOptsDefault
    /\ tileMap = <<>>
    /\ maps = imageMaps
    /\ hiddeny = <<>>
    /\ depthBuffer = <<>>
    /\ buf32 = <<>>
    /\ rp = rpIdle
    /\ terrainData = <<>>
    /\ finalData = <<>>
    /\ heightonscreen = <<>>
    /\ subdividedTileCache = <<>>
    /\ registry = noIndex
    /\ items = <<>>
    /\ tileEditor = tileEditorClosed
    /\ localStorage = [i \in Slots |-> <<>>]
    /\ heap = staticObjects
    /\ session = sessionStart
    /\ updaterunning = FALSE
    /\ pendingDraws = 0
    /\ CallIdle

\* a call Draw() without a timestamp: updaterunning = true, the frame is
\* passed over (timestamp - lastFrameTime is NaN) and
\* requestAnimationFrame(Draw) adds a callback
Draw ==
    /\ updaterunning' = TRUE
    /\ pendingDraws' = pendingDraws + 1

\* the handler returns without a call of Draw
noDraw == UNCHANGED drawVars

\* what the actions of this part leave alone in the rasterizer and the world
installFrame ==
    UNCHANGED <<seedStr, gen, prevRun, renderOpts, hiddeny, depthBuffer, buf32, rp,
                columnVars, notEdit>>

\* no frame is rendered
cacheFrame == UNCHANGED subdividedTileCache

editFrame == installFrame /\ UNCHANGED camera

worldFrame == UNCHANGED <<currentSeed, proceduralMode, worldMapData>>

\* the page is loaded again: every global starts over, localStorage stays
PageLoad ==
    /\ session.pages < MaxPages
    /\ \E slotIndex \in Slots : localStorage[slotIndex] # <<>>
    /\ currentSeed' = <<0, 0>>
    /\ proceduralMode' = FALSE
    /\ worldMapData' = <<>>
    /\ camera' = cameraDefault
    /\ tileMap' = <<>>
    /\ maps' = imageMaps
    /\ registry' = noIndex
    /\ items' = <<>>
    /\ tileEditor' = tileEditorClosed
    /\ heap' = staticObjects
    /\ session' = [session EXCEPT !.pages = @ + 1, !.menuUsed = FALSE,
                                   !.synthesized = <<>>]
    /\ args' = <<>>
    /\ result' = <<>>
    /\ updaterunning' = FALSE
    /\ pendingDraws' = 0
    /\ subdividedTileCache' = <<>>
    /\ UNCHANGED localStorage
    /\ installFrame

\* initializeTileSystem: the inner tiles get 0 or 1 at random; odd says
\* which way the draw went
initializeTileSystem(odd) ==
    [k \in (-6 .. 5) \X (-6 .. 5) |->
        IF k[1] = -6 \/ k[1] = 5 \/ k[2] = -6 \/ k[2] = 5 THEN 2
        ELSE IF k = <<0, 0>> THEN 0
        ELSE IF k = <<1, 0>> THEN 1
        ELSE (k[1] + k[2] + (IF odd THEN 1 ELSE 0)) % 2]

\* flattenTerrainUnderCube writes the least altitude under the cube into
\* map.altitude
flattenTerrainUnderCube(m) == [m EXCEPT ![1] = [@ EXCEPT !.flat = TRUE]]

\* spawnBiomeTrees: the trees of one world, or none
spawnBiomeTrees(planted, seed) ==
    IF planted THEN <<[type |-> "tree", world |-> seed]>> ELSE <<>>

player_normalHeight == 78

\* getRawTerrainHeight(camera.x, camera.y) on the spawn tile: the ends of
\* the beach tile's range, by the way the noise went
spawnTerrainHeight(odd) == IF odd THEN 63 ELSE 20

\* generateTerrain(str) and what both of its callers do after it; tiles is
\* the tile map to install after initializeTileSystem, <<>> for none, and
\* world the grid to install, <<>> for none; odd says which way the random
\* draws of the call went
installWorld(str, tiles, world, odd) ==
    \E baseSeed \in {hashSeedStr(str, <<0, 0>>)} :
    \E grid \in {session.worldMaps[baseSeed]} :
    \E reg \in {generateTiles(Reg(maps, registry, heap), grid, baseSeed)} :
        /\ currentSeed' = baseSeed
        /\ proceduralMode' = TRUE
        /\ worldMapData' = IF world = <<>> THEN grid ELSE world[1]
        /\ tileMap' = IF tiles = <<>> THEN initializeTileSystem(odd) ELSE tiles[1]
        /\ maps' = flattenTerrainUnderCube(reg.maps)
        /\ registry' = reg.index
        /\ heap' = reg.heap
        /\ items' = spawnBiomeTrees(odd, baseSeed)
        /\ camera' = [camera EXCEPT !.height = spawnTerrainHeight(odd) + player_normalHeight]

\* the seed menu's GENERATE button
Generate ==
    /\ ~session.menuUsed
    /\ session.worlds < MaxWorlds
    /\ \E str \in EditSeedStrs, odd \in BOOLEAN :
           /\ installWorld(str, <<>>, <<>>, odd)
           /\ args' = <<"generateTerrain", str>>
    /\ result' = <<>>
    /\ session' = [session EXCEPT !.worlds = @ + 1, !.menuUsed = TRUE,
                                   !.synthesized = <<>>]
    /\ Draw
    /\ UNCHANGED <<tileEditor, localStorage>>
    /\ installFrame
    /\ cacheFrame

OpenEditor ==
    /\ proceduralMode
    /\ worldMapData # <<>>
    /\ ~tileEditor.open
    /\ tileEditor' = [tileEditor EXCEPT !.open = TRUE]
    /\ UNCHANGED <<tileMap, maps, registry, items, localStorage, heap, session, args, result>>
    /\ noDraw
    /\ worldFrame
    /\ editFrame
    /\ cacheFrame

CloseEditor ==
    /\ tileEditor.open
    /\ tileEditor' = [tileEditor EXCEPT !.open = FALSE]
    /\ UNCHANGED <<tileMap, maps, registry, items, localStorage, heap, session, args, result>>
    /\ noDraw
    /\ worldFrame
    /\ editFrame
    /\ cacheFrame

\* the items of the tile picker that are clicked
PickedIndices == {4, 13}

\* the indices the tile picker offers
pickerItems == {0, 1, 2, 3} \cup {registry[f][k] : <<f, k>> \in {p \in Families \X OrientationKeys : p[2] \in DOMAIN registry[p[1]]}}

\* a click on an item of the tile picker
PickTile ==
    /\ tileEditor.open
    /\ \E mapIdx \in pickerItems \cap PickedIndices :
           /\ mapIdx # tileEditor.currentMapIdx
           /\ tileEditor' = [tileEditor EXCEPT !.currentMapIdx = mapIdx]
    /\ UNCHANGED <<tileMap, maps, registry, items, localStorage, heap, session, args, result>>
    /\ noDraw
    /\ worldFrame
    /\ editFrame
    /\ cacheFrame

paintTargetedTile(target) ==
    /\ tileEditor.open
    /\ session.edits < MaxEdits
    /\ tileMap' = (target :> tileEditor.currentMapIdx) @@ tileMap
    /\ session' = [session EXCEPT !.edits = @ + 1]
    /\ args' = <<"paintTargetedTile", target>>
    /\ result' = <<>>
    /\ Draw
    /\ UNCHANGED <<maps, registry, items, tileEditor, localStorage, heap>>
    /\ worldFrame
    /\ editFrame
    /\ cacheFrame

\* the first group whose index holds mapIdx, from group g on; 0 if none
RECURSIVE groupOf(_, _)
groupOf(mapIdx, g) ==
    IF g > Len(groups) THEN 0
    ELSE IF \E k \in DOMAIN registry[groups[g]] : registry[groups[g]][k] = mapIdx THEN g
    ELSE groupOf(mapIdx, g + 1)

\* the key of that group which maps to mapIdx
foundKey(mapIdx, g) ==
    CHOOSE k \in DOMAIN registry[groups[g]] : registry[groups[g]][k] = mapIdx

\* whether rotateTile gets as far as changing the tile
rotates(target) ==
    /\ tileEditor.open
    /\ target \in DOMAIN tileMap
    /\ tileMap[target] \notin {0, 1, 2, 3}
    /\ groupOf(tileMap[target], 1) # 0

\* mutant: the rotated key is synthesized whether or not it is registered
registered_never(family, k) == FALSE

\* grp.index[newKey] !== undefined
registered(family, k) == k \in DOMAIN registry[family]

rotateTile(target, clockwise) ==
    /\ session.edits < MaxEdits
    /\ args' = <<"rotateTile", target, clockwise>>
    /\ result' = <<>>
    /\ IF ~rotates(target)
       THEN /\ session' = [session EXCEPT !.edits = @ + 1]
            /\ noDraw
            /\ UNCHANGED <<tileMap, maps, registry, heap>>
       ELSE LET g == groupOf(tileMap[target], 1)
                family == groups[g]
                newKey == rotateKey(foundKey(tileMap[target], g), clockwise)
            IN  IF newKey = foundKey(tileMap[target], g)
                THEN /\ session' = [session EXCEPT !.edits = @ + 1]
                     /\ noDraw
                     /\ UNCHANGED <<tileMap, maps, registry, heap>>
                ELSE IF registered(family, newKey)
                THEN /\ tileMap' = [tileMap EXCEPT ![target] = registry[family][newKey]]
                     /\ session' = [session EXCEPT !.edits = @ + 1]
                     /\ Draw
                     /\ UNCHANGED <<maps, registry, heap>>
                ELSE /\ maps' = Append(maps, Tile(heap, tileGen(family, newKey),
                                                  tileSeed(family, newKey, currentSeed),
                                                  newKey))
                     /\ registry' = [registry EXCEPT ![family] = (newKey :> Len(maps)) @@ @]
                     /\ heap' = heap + 1
                     /\ tileMap' = [tileMap EXCEPT ![target] = Len(maps)]
                     /\ session' = [session EXCEPT
                                       !.edits = @ + 1,
                                       !.synthesized = Append(@, <<family, newKey>>)]
                     /\ Draw
    /\ UNCHANGED <<items, tileEditor, localStorage>>
    /\ worldFrame
    /\ editFrame
    /\ cacheFrame

\* saveToSlot(slotIndex); setItemDone says whether localStorage.setItem succeeded
saveToSlot(slotIndex, setItemDone) ==
    /\ session.saves < MaxSaves
    /\ session' =
           [session EXCEPT
               !.saves = @ + 1,
               !.snapshot =
                   IF proceduralMode /\ worldMapData # <<>> /\ setItemDone
                   THEN [@ EXCEPT ![slotIndex] =
                            <<currentSeed, tileMap, worldMapData, referred(tileMap, maps)>>]
                   ELSE @]
    /\ args' = <<"saveToSlot", slotIndex>>
    /\ IF proceduralMode /\ worldMapData # <<>> /\ setItemDone
       THEN /\ localStorage' =
                   [localStorage EXCEPT ![slotIndex] =
                       <<SaveData(String(currentSeed), jsonCopy(tileMap), worldMapData)>>]
            /\ result' = <<TRUE>>
       ELSE /\ UNCHANGED localStorage
            /\ result' = <<FALSE>>
    /\ UNCHANGED <<tileMap, maps, registry, items, tileEditor, heap>>
    /\ noDraw
    /\ worldFrame
    /\ editFrame
    /\ cacheFrame

\* mutant: the saved tileMap is not laid over the initialized one
loadAccepted_noOverlay(data, odd) ==
    /\ session.worlds < MaxWorlds
    /\ installWorld(data.seed, <<>>,
                    IF "worldMapData" \in DOMAIN data
                    THEN <<Uint8Array(data.worldMapData)>> ELSE <<>>,
                    odd)
    /\ session' = [session EXCEPT !.worlds = @ + 1, !.synthesized = <<>>]
    /\ result' = <<TRUE>>
    /\ Draw
    /\ UNCHANGED <<tileEditor, localStorage>>
    /\ installFrame
    /\ cacheFrame

\* loadFromData(data) where the guard lets data through
loadAccepted(data, odd) ==
    /\ session.worlds < MaxWorlds
    /\ installWorld(data.seed, <<jsonCopy(data.tileMap)>>,
                    IF "worldMapData" \in DOMAIN data
                    THEN <<Uint8Array(data.worldMapData)>> ELSE <<>>,
                    odd)
    /\ session' = [session EXCEPT !.worlds = @ + 1, !.synthesized = <<>>]
    /\ result' = <<TRUE>>
    /\ Draw
    /\ UNCHANGED <<tileEditor, localStorage>>
    /\ installFrame
    /\ cacheFrame

\* mutant: items = [] stands before the guard
loadRejected_itemsCleared ==
    /\ session.worlds < MaxWorlds
    /\ session' = [session EXCEPT !.worlds = @ + 1]
    /\ result' = <<FALSE>>
    /\ noDraw
    /\ items' = <<>>
    /\ UNCHANGED <<tileMap, maps, registry, tileEditor, localStorage, heap>>
    /\ worldFrame
    /\ editFrame
    /\ cacheFrame

\* loadFromData(data) where it does not
loadRejected ==
    /\ session.worlds < MaxWorlds
    /\ session' = [session EXCEPT !.worlds = @ + 1]
    /\ result' = <<FALSE>>
    /\ noDraw
    /\ UNCHANGED <<tileMap, maps, registry, items, tileEditor, localStorage, heap>>
    /\ worldFrame
    /\ editFrame
    /\ cacheFrame

loadFromSlot(slotIndex, odd) ==
    /\ args' = <<"loadFromSlot", slotIndex>>
    /\ IF rejected(localStorage[slotIndex]) THEN loadRejected
       ELSE loadAccepted(localStorage[slotIndex][1], odd)

\* importWorld(file) with a file loadFromData turns away
importWorld(file) ==
    /\ args' = <<"loadFromData", file>>
    /\ rejected(file)
    /\ loadRejected

Rotate == \E target \in TargetTiles, clockwise \in BOOLEAN : rotateTile(target, clockwise)

Paint == \E target \in TargetTiles : paintTargetedTile(target)

Save == \E slotIndex \in UsedSlots, setItemDone \in BOOLEAN : saveToSlot(slotIndex, setItemDone)

Load == \E slotIndex \in UsedSlots, odd \in BOOLEAN : loadFromSlot(slotIndex, odd)

Import == \E file \in BadFiles : importWorld(file)

\* DetectKeysDown on a key that changes nothing else here (L, the legend)
KeyDown ==
    /\ IF ~updaterunning THEN Draw ELSE noDraw
    /\ UNCHANGED <<tileMap, maps, registry, items, tileEditor, localStorage, heap,
                   session, args, result>>
    /\ worldFrame
    /\ editFrame
    /\ cacheFrame

\* the cache after Render(): Render_Subdivided samples the column i = 0 of
\* the slice z = 1, one unit in front of the camera, with hiddeny[0] = sh;
\* of the pass, which SpecRender follows column by column, only that
\* column's entries are kept here
renderedCache ==
    IF renderOpts.renderMode = "subdivided"
    THEN cacheAfter(P(camera.x) - PosUnit, P(camera.y) - PosUnit)
    ELSE subdividedTileCache

\* the browser runs a pending callback: Draw(timestamp) sets updaterunning,
\* draws the frame and ends with requestAnimationFrame(Draw)
AnimationFrame ==
    /\ pendingDraws > 0
    /\ updaterunning' = TRUE
    /\ pendingDraws' = (pendingDraws - 1) + 1
    /\ subdividedTileCache' = renderedCache
    /\ UNCHANGED <<tileMap, maps, registry, items, tileEditor, localStorage, heap,
                   session, args, result>>
    /\ worldFrame
    /\ editFrame

EditNext ==
    \/ PageLoad
    \/ Generate
    \/ OpenEditor
    \/ CloseEditor
    \/ PickTile
    \/ Paint
    \/ Rotate
    \/ Save
    \/ Load
    \/ Import
    \/ KeyDown
    \/ AnimationFrame

InitEdit == EditInit /\ KeyIdle /\ JumpIdle

SpecEdit == InitEdit /\ [][EditNext]_vars

(***************************************************************************)
(* Claims about the tile editor and the save slots                         *)
(***************************************************************************)
\* the step is a call of rotateTile
rotateCalled ==
    /\ session'.edits = session.edits + 1
    /\ args'[1] = "rotateTile"

\* the key rotateTile turns the tile of target to
rotatedKey(target, clockwise) ==
    rotateKey(foundKey(tileMap[target], groupOf(tileMap[target], 1)), clockwise)

\* no pair stands twice in pairs
noRepeat(pairs) ==
    \A i, j \in DOMAIN pairs : pairs[i] = pairs[j] => i = j

\* what C18 says of one call of rotateTile that gets as far as the rotation
C18_RotateStep ==
    (rotateCalled /\ rotates(args'[2])) =>
        LET target == args'[2]
            family == groups[groupOf(tileMap[target], 1)]
            newKey == rotatedKey(target, args'[3])
        IN  /\ IF newKey \in DOMAIN registry[family]
               THEN /\ maps' = maps
                    /\ registry' = registry
                    /\ tileMap'[target] = registry[family][newKey]
               ELSE /\ Len(maps') = Len(maps) + 1
                    /\ SubSeq(maps', 1, Len(maps)) = maps
                    /\ maps'[Len(maps')].key = newKey
                    /\ maps'[Len(maps')].gen = tileGen(family, newKey)
                    /\ registry' = [registry EXCEPT ![family] = (newKey :> Len(maps)) @@ @]
                    /\ tileMap'[target] = Len(maps)
            /\ \A k \in DOMAIN tileMap : k # target => tileMap'[k] = tileMap[k]
            /\ noRepeat(session'.synthesized)

lacksPart(file) ==
    \/ file = <<>>
    \/ "seed" \notin DOMAIN file[1]
    \/ "tileMap" \notin DOMAIN file[1]

\* the step is a call of loadFromData, directly or by loadFromSlot, with
\* such data
turnedAway ==
    /\ session'.worlds = session.worlds + 1
    /\ \/ args'[1] = "loadFromData" /\ lacksPart(args'[2])
       \/ args'[1] = "loadFromSlot" /\ lacksPart(localStorage[args'[2]])

C9_RejectStep ==
    turnedAway =>
        /\ result' = <<FALSE>>
        /\ currentSeed' = currentSeed
        /\ proceduralMode' = proceduralMode
        /\ worldMapData' = worldMapData
        /\ maps' = maps
        /\ tileMap' = tileMap
        /\ items' = items

\* C9: loadFromData with save data that is null or has no seed or no
\* tileMap returns false and leaves currentSeed, proceduralMode,
\* worldMapData, maps, tileSystem.tileMap and items as they were
C9_NothingInstalled == [][C9_RejectStep]_vars

\* a file without tileMap has been turned away while a world with trees is
\* installed
C9_Witness ==
    /\ args # <<>>
    /\ args[1] = "loadFromData"
    /\ args[2] # <<>>
    /\ "tileMap" \notin DOMAIN args[2][1]
    /\ result = <<FALSE>>
    /\ proceduralMode
    /\ items # <<>>
    /\ Len(maps) > 4

\* 32-bit seeds String and hashSeedStr are tried on
RoundTripSeeds ==
    {<<0, 0>>, <<0, 7>>, <<0, 65535>>, <<1, 0>>, <<32768, 0>>, <<59148, 11749>>,
     <<65535, 65535>>}

\* the step is a loadFromSlot of a slot that saveToSlot has written
slotLoaded ==
    /\ session'.worlds = session.worlds + 1
    /\ args'[1] = "loadFromSlot"
    /\ session.snapshot[args'[2]] # <<>>

C10_LoadStep ==
    slotLoaded =>
        LET saved == session.snapshot[args'[2]]
        IN  /\ result' = <<TRUE>>
            /\ currentSeed' = saved[1]
            /\ tileMap' = saved[2]
            /\ worldMapData' = saved[3]
            /\ \A s \in RoundTripSeeds \cup {saved[1]} :
                   hashSeedStr(String(s), <<0, 0>>) = s

sameTile(raster, saved) ==
    /\ raster.gen = saved.gen
    /\ raster.key = saved.key
    /\ raster.seed = saved.seed

C11_LoadStep ==
    slotLoaded =>
        LET saved == session.snapshot[args'[2]]
        IN  \A k \in DOMAIN tileMap' :
                /\ tileMap'[k] + 1 \in DOMAIN maps'
                /\ saved[4][k] # <<>>
                /\ sameTile(maps'[tileMap'[k] + 1], saved[4][k][1])

\* C11: after loadFromData succeeds on data written by saveToSlot every
\* index of tileSystem.tileMap refers to an entry of maps[], and the entry
\* is the raster of the family, key and seed the index referred to when the
\* data was saved
C11_IndicesRestored == [][C11_LoadStep]_vars

\* C12: a raster that has been synthesized and registered in maps[] holds
\* the altitude and color arrays its generator wrote: no later operation
\* has written into them
C12_RastersImmutable ==
    \A i \in DOMAIN maps : maps[i].gen # "image" => ~maps[i].flat

\* the index in index[family] of key k; -1 if the key is not registered
indexOf(index, family, k) ==
    IF k \in DOMAIN index[family] THEN index[family][k] ELSE -1

\* the maps[] index of the tile for the biome of grid cell (gx, gy): a base
\* biome tile, or the tile of the cell's orientation key
biomeTile(grid, index, gx, gy) ==
    LET biome == grid[Idx(gx, gy)]
    IN  IF biome = BIOME_BEACH THEN 0
        ELSE IF biome = BIOME_PLAINS THEN 1
        ELSE IF biome = BIOME_HILLS THEN 2
        ELSE IF biome = BIOME_MOUNTAIN
        THEN indexOf(index, "mountainRidge", getMountainRidgeKey(grid, gx, gy))
        ELSE indexOf(index, "transition", getTransitionKey(grid, gx, gy))

\* the step is the seed menu's generateTerrain with initializeTileSystem
generated ==
    /\ session'.worlds = session.worlds + 1
    /\ args'[1] = "generateTerrain"

C21_GenerateStep ==
    generated =>
        \A k \in DOMAIN tileMap' :
            tileMap'[k] = biomeTile(worldMapData', registry', k[1] + 8, k[2] + 8)

\* C21: after generateTerrain and initializeTileSystem every tile coordinate
\* (tx, ty) of the tile map holds the index of the tile for the biome of
\* grid cell (tx + 8, ty + 8): the tile map is a function of the world grid
C21_TileMapFromGrid == [][C21_GenerateStep]_vars

\* the <<family, key>> entries of the six index objects
registryEntries ==
    {e \in Families \X OrientationKeys : e[2] \in DOMAIN registry[e[1]]}

\* the generator of the raster registered under key k of family
generatorOf(family, k) ==
    IF k = PEAK THEN "genPeakMountainTile"
    ELSE IF k = PEAK1 THEN "genSinglePeakMountainTile"
    ELSE tileGen(family, k)

\* C22: once generateTerrain has run, no maps[] index is registered under
\* two different <<family, key>> entries of the index objects, no registered
\* index is one of 0..3, and maps[index] is the raster generated for the
\* family and key
C22_RegistryOneToOne ==
    proceduralMode =>
        /\ \A e, f \in registryEntries :
               registry[e[1]][e[2]] = registry[f[1]][f[2]] => e = f
        /\ \A e \in registryEntries :
               /\ registry[e[1]][e[2]] \notin 0 .. 3
               /\ registry[e[1]][e[2]] + 1 \in DOMAIN maps
               /\ maps[registry[e[1]][e[2]] + 1].key = e[2]
               /\ maps[registry[e[1]][e[2]] + 1].gen = generatorOf(e[1], e[2])

(***************************************************************************)
(* Claims about the ridge walks and the repair passes                      *)
(***************************************************************************)
\* cell c of grid is MOUNTAIN and none of its cardinal neighbours is
isolated(grid, c) ==
    /\ grid[c] = BIOME_MOUNTAIN
    /\ \A n \in Cardinal(CellX(c), CellY(c)) : grid[n] # BIOME_MOUNTAIN

\* C23: after generateMountainRidges every MOUNTAIN cell has a MOUNTAIN cell
\* among its four cardinal neighbours
C23_NoIsolatedMountain ==
    gen.pc \in {"repair", "transition", "done"} =>
        \A c \in Cells : ~isolated(gen.grid, c)

\* the sum of wm_checkConflicts over all cells
RECURSIVE rowConflicts(_, _, _)
rowConflicts(grid, gy, gx) ==
    IF gx >= WORLD_MAP_SIZE THEN 0
    ELSE wm_checkConflicts(grid, gx, gy, 1) + rowConflicts(grid, gy, gx + 1)

RECURSIVE conflictsFrom(_, _)
conflictsFrom(grid, gy) ==
    IF gy >= WORLD_MAP_SIZE THEN 0
    ELSE rowConflicts(grid, gy, 0) + conflictsFrom(grid, gy + 1)

totalConflicts(grid) == conflictsFrom(grid, 0)

\* the step is one iteration of the repair loop
repaired ==
    /\ gen.pc = "repair"
    /\ gen'.pc = "repair"
    /\ gen'.iter = gen.iter + 1

\* (a step that leaves the grid as it is leaves the sum as it is, the sum
\* being a function of the grid)
C26_RepairStep ==
    repaired /\ gen'.grid # gen.grid =>
        /\ totalConflicts(gen'.grid) <= totalConflicts(gen.grid)
        /\ \A c \in Cells :
               gen'.grid[c] # gen.grid[c] =>
                   /\ gen.grid[c] # BIOME_MOUNTAIN
                   /\ gen'.grid[c] # BIOME_MOUNTAIN
                   /\ wm_checkConflicts(gen'.grid, CellX(c), CellY(c), 1)
                          < wm_checkConflicts(gen.grid, CellX(c), CellY(c), 1)

\* C26: during the minimum-conflicts repair the sum of wm_checkConflicts
\* over all cells never increases from one repair step to the next; a cell
\* changes only to a type with strictly fewer conflicts for that cell, and
\* MOUNTAIN cells are never changed
C26_ConflictsNeverIncrease == [][C26_RepairStep]_vars

\* a pass that found a conflicting cell has ended with no conflict left
C26_Witness ==
    /\ gen.pc = "repair"
    /\ gen.anyConflict
    /\ gen.iter = total
    /\ totalConflicts(gen.grid) = 0

(***************************************************************************)
(* Claims about the slice loop                                             *)
(***************************************************************************)
\* Render has entered the slice loop of the chosen strategy
loopEntered == rp.pc = "idle" /\ rp'.pc # "idle"

\* the loop has gone from one slice to the test of the next
sliceEnded == rp.pc = "tail" /\ rp'.pc \in {"column", "done"}

C25_SliceStep ==
    /\ loopEntered => rp'.z = ZUnit /\ rp'.deltaz = ZUnit
    /\ sliceEnded =>
           /\ rp'.deltaz = rp.deltaz + (IF rp.z <= 1000 * ZUnit THEN 1 ELSE 4)
           /\ rp'.deltaz >= rp.deltaz
           /\ rp'.z > rp.z
    /\ rp'.slices < camera'.distance \/ rp'.slices = 0

interpolated ==
    /\ rp.pc = "column"
    /\ renderOpts.renderMode \in {"tiled", "cached"}
    /\ rp.currentHeights # <<>> /\ rp.prevHeights # <<>> /\ rp.prevColors # <<>>
    /\ rp'.pc \in {"column", "tail"}
    /\ ~isNull(terrainData')

C28_ColumnStep ==
    interpolated =>
        /\ RatEq(clamp(Rat(rp.z - rp.prevZ, rp.deltaz), RatInt(0), RatInt(1)), RatInt(1))
        /\ RatEq(finalData'[1], terrainData'[1])
        /\ finalData'[2] = terrainData'[2]

\* C28: in Render_Tiled and Render_Cached the depth-interpolation factor
\* clamp((z - prevZ) / deltaz, 0, 1) is 1 at every slice where it is used, so
\* the height projected and the colour painted are the sample's own, as in
\* the pass with renderOpts.depthInterp off
C28_DepthFactorIsOne == [][C28_ColumnStep]_vars

\* a column painted from a sample that differs from the previous slice's
C28_Witness ==
    /\ rp.pc \in {"column", "tail"}
    /\ renderOpts.renderMode \in {"tiled", "cached"}
    /\ renderOpts.depthInterp
    /\ rp.prevHeights # <<>>
    /\ rp.written # {}
    /\ ~isNull(finalData)
    /\ RatEq(finalData[1], terrainData[1])
    /\ \E i \in 1 .. ScreenW :
           /\ ~RatEq(rp.currentHeights[i], rp.prevHeights[i])
           /\ rp.currentColors[i] # rp.prevColors[i]
           /\ rp.currentColors[i] = finalData[2]

C27_OneDrawChain == pendingDraws <= 1

(***************************************************************************)
(* Claims about the cache of subdivided tiles                              *)
(***************************************************************************)
\* C30: an entry of window.subdividedTileCache is the transform (4x
\* downsample, 4x replicate, half height) of the present contents of the
\* base raster map
C30_CacheFollowsMap ==
    \A t \in DOMAIN subdividedTileCache : contents(subdividedTileCache[t]) = contents(map)

(***************************************************************************)
(* Claims about getRawTerrainHeight                                        *)
(***************************************************************************)
\* C24: in 'subdivided' mode getRawTerrainHeight(x, y) is the height
\* Render_Subdivided uses at that position under nearest-neighbour sampling,
\* whatever the cache holds and whatever renderOpts.tileBlending is
C24_RawMatchesRender ==
    (/\ result # <<>>
     /\ args[1] = "getRawTerrainHeight"
     /\ renderOpts.renderMode = "subdivided")
    => RatEq(result[1], subdividedSample(args[2], args[3], FALSE)[1])

====
